---- MODULE Spec2Model ----
(***************************************************************************)
(* A model of staticdash (src/staticdash/dashboard.py): the container data *)
(* model (AbstractPage, Page, MiniPage), the Dashboard aggregate, the      *)
(* recursive render of a container into a tree of nodes, and publish.      *)
(*                                                                         *)
(* Python values: an optional value is a sequence of length 0 (None) or 1. *)
(* A rendered node is a record with a "tag" field; an exception leaving a  *)
(* render call is the node [tag |-> "raise", exc |-> <type>].              *)
(***************************************************************************)
EXTENDS Integers, Sequences, FiniteSets, TLC

VARIABLES
    elements,      \* container -> its block sequence (AbstractPage.elements)
    page_width,    \* container or "dash" -> optional pixel width
    marking,       \* page or "dash" -> optional marking string
    distribution,  \* the Dashboard's optional distribution statement
    slug,          \* page -> slug
    children,      \* page -> sequence of sub-pages (Page.children)
    pages,         \* Dashboard.pages
    fs,            \* the caller's file system: path -> "file" | "dir" | "absent"
    files,         \* the output directory: path -> document written there
    figs,          \* figure -> its dimensions (layout height/width, or size in inches)
    log,           \* the paths publish has opened for writing, in order
    last,          \* the last call: its operation, its target, the exception it raised
    input_text,    \* the argument of split_paragraphs_preserving_math
    paragraphs,    \* what split_paragraphs_preserving_math returned for it
    dashboards,    \* Directory.dashboards: (slug, dashboard) pairs
    sites,         \* the output root of a Directory: file -> what wrote it last
    simple_pages,  \* simpledash's Dashboard.pages: title and elements of each page
    display,       \* simpledash's index.html: section -> its style.display
    active         \* simpledash's index.html: the nav links of class "active"

vars == <<elements, page_width, marking, distribution, slug, children, pages,
          fs, files, figs, log, last, input_text, paragraphs, dashboards,
          sites, simple_pages, display, active>>

\* The simpledash Dashboard and its page in the browser.
simple == <<simple_pages, display, active>>

\* The state outside the staticdash Dashboard: the text utility, the Directory and
\* the simpledash page.
beside == <<input_text, paragraphs, dashboards, sites, simple>>

tree == <<page_width, marking, distribution, slug, children, pages>>

----------------------------------------------------------------------------
(* Bounds of the model.                                                    *)

\* The longest block sequence a container is given.
MaxElems == 2

\* The longest Dashboard.pages and Page.children lists.
MaxPages == 2

----------------------------------------------------------------------------
(* Python values.                                                          *)

None == <<>>

Some(x) == <<x>>

\* bool(v) for an optional integer: None and 0 are falsy.
TruthyInt(v) == v # None /\ v[1] # 0

\* bool(v) for an optional string: None and "" are falsy.
TruthyStr(v) == v # None /\ v[1] # ""

\* Python's `a or b` on optional integers and on optional strings.
OrInt(a, b) == IF TruthyInt(a) THEN a ELSE b

OrStr(a, b) == IF TruthyStr(a) THEN a ELSE b

----------------------------------------------------------------------------
(* The objects of a run.                                                   *)

PageIds == {"p1", "p2", "p3"}

MiniIds == {"m1", "m2"}

Containers == PageIds \cup MiniIds

Dash == "dash"

\* What the caller holds as a figure: whether it has to_html (a Plotly
\* figure) and whether serializing it (to_html, savefig) raises.
Figures == {"fig_plotly", "fig_plotly_broken", "fig_mpl", "fig_mpl_broken"}

HasToHtml(fig) == fig \in {"fig_plotly", "fig_plotly_broken"}

SerializeRaises(fig) == fig \in {"fig_plotly_broken", "fig_mpl_broken"}

\* What the caller holds as a table: a DataFrame, or an object whose
\* to_html raises.
Tables == {"df", "df_broken"}

ToHtmlRaises(df) == df = "df_broken"

\* os.path.isfile
IsFile(path) == fs[path] = "file"

NoExc == "none"

\* A call as the caller sees it: the operation, its receiver, its arguments, the exception.
Call(op, target, args, exc) == [op |-> op, target |-> target, args |-> args, exc |-> exc]

----------------------------------------------------------------------------
(* AbstractPage: the append operations.                                     *)

Block(kind, content, width) == [kind |-> kind, content |-> content, width |-> width]

Appended(c, block) == [elements EXCEPT ![c] = Append(@, block)]

UncheckedHeader(c, text, level, width) ==
    /\ Len(elements[c]) < MaxElems
    /\ elements' = Appended(c, Block("header", [text |-> text, level |-> level], width))
    /\ last' = Call("add_header", c, [text |-> text, level |-> level, width |-> width], NoExc)
    /\ UNCHANGED <<tree, fs, files, figs, log, beside>>

AddHeader(c, text, level, width) ==
    /\ Len(elements[c]) < MaxElems
    /\ IF level \notin {1, 2, 3, 4}
       THEN /\ last' = Call("add_header", c, [text |-> text, level |-> level, width |-> width], "ValueError")
            /\ UNCHANGED elements
       ELSE /\ elements' = Appended(c, Block("header", [text |-> text, level |-> level], width))
            /\ last' = Call("add_header", c, [text |-> text, level |-> level, width |-> width], NoExc)
    /\ UNCHANGED <<tree, fs, files, figs, log, beside>>

AddText(c, text, width) ==
    /\ Len(elements[c]) < MaxElems
    /\ elements' = Appended(c, Block("text", [text |-> text], width))
    /\ last' = Call("add_text", c, [text |-> text, width |-> width], NoExc)
    /\ UNCHANGED <<tree, fs, files, figs, log, beside>>

\* The payload is the 4-tuple (plot, height, width_px, align).
AddPlot(c, plot, width, height, width_px, align) ==
    /\ Len(elements[c]) < MaxElems
    /\ elements' = Appended(c, Block("plot",
            [plot |-> plot, height |-> height, width_px |-> width_px, align |-> align],
            width))
    /\ last' = Call("add_plot", c, [plot |-> plot, height |-> height, width_px |-> width_px, align |-> align, width |-> width], NoExc)
    /\ UNCHANGED <<tree, fs, files, figs, log, beside>>

AddTable(c, df, width) ==
    /\ Len(elements[c]) < MaxElems
    /\ elements' = Appended(c, Block("table", [df |-> df], width))
    /\ last' = Call("add_table", c, [df |-> df, width |-> width], NoExc)
    /\ UNCHANGED <<tree, fs, files, figs, log, beside>>

UncheckedDownload(c, file_path, label, width) ==
    /\ Len(elements[c]) < MaxElems
    /\ elements' = Appended(c, Block("download", [file_path |-> file_path, label |-> label], width))
    /\ last' = Call("add_download", c, [file_path |-> file_path, label |-> label, width |-> width], NoExc)
    /\ UNCHANGED <<tree, fs, files, figs, log, beside>>

AddDownload(c, file_path, label, width) ==
    /\ Len(elements[c]) < MaxElems
    /\ IF ~IsFile(file_path)
       THEN /\ last' = Call("add_download", c, [file_path |-> file_path, label |-> label, width |-> width], "FileNotFoundError")
            /\ UNCHANGED elements
       ELSE /\ elements' = Appended(c, Block("download", [file_path |-> file_path, label |-> label], width))
            /\ last' = Call("add_download", c, [file_path |-> file_path, label |-> label, width |-> width], NoExc)
    /\ UNCHANGED <<tree, fs, files, figs, log, beside>>

AddMinipage(c, minipage, width) ==
    /\ Len(elements[c]) < MaxElems
    /\ elements' = Appended(c, Block("minipage", [minipage |-> minipage], width))
    /\ last' = Call("add_minipage", c, [minipage |-> minipage, width |-> width], NoExc)
    /\ UNCHANGED <<tree, fs, files, figs, log, beside>>

AddSyntax(c, code, language, width) ==
    /\ Len(elements[c]) < MaxElems
    /\ elements' = Appended(c, Block("syntax", [code |-> code, language |-> language], width))
    /\ last' = Call("add_syntax", c, [code |-> code, language |-> language, width |-> width], NoExc)
    /\ UNCHANGED <<tree, fs, files, figs, log, beside>>

----------------------------------------------------------------------------
(* Page and Dashboard: the tree.                                            *)

AddSubpage(p, page) ==
    /\ Len(children[p]) < MaxPages
    /\ children' = [children EXCEPT ![p] = Append(@, page)]
    /\ last' = Call("add_subpage", p, [page |-> page], NoExc)
    /\ UNCHANGED <<elements, page_width, marking, distribution, slug, pages,
                 fs, files, figs, log, beside>>

AddPage(page) ==
    /\ Len(pages) < MaxPages
    /\ pages' = Append(pages, page)
    /\ last' = Call("add_page", Dash, [page |-> page], NoExc)
    /\ UNCHANGED <<elements, page_width, marking, distribution, slug, children,
                 fs, files, figs, log, beside>>

\* An assignment to the public attribute `marking` of the Dashboard or of a Page.
SetMarking(o, value) ==
    /\ marking[o] # value
    /\ marking' = [marking EXCEPT ![o] = value]
    /\ last' = Call("set_marking", o, [value |-> value], NoExc)
    /\ UNCHANGED <<elements, page_width, distribution, slug, children, pages,
                 fs, files, figs, log, beside>>

\* The caller's environment removes a file.
RemoveFile(path) ==
    /\ fs[path] = "file"
    /\ fs' = [fs EXCEPT ![path] = "absent"]
    /\ last' = Call("remove", path, [path |-> path], NoExc)
    /\ UNCHANGED <<elements, tree, files, figs, log, beside>>

----------------------------------------------------------------------------
(* Rendered nodes.                                                          *)

Raise(exc) == [tag |-> "raise", exc |-> exc]

IsRaise(node) == node.tag = "raise"

\* div(f"<what> could not be rendered: {e}")
Placeholder(what, e) == [tag |-> "placeholder", text |-> what, error |-> e]

\* The width box only around a block whose width fraction is truthy.
WrapTruthy(elem, el_width) ==
    IF TruthyInt(el_width)
    THEN [tag |-> "outer-box", style |-> "flex-center",
          kid |-> [tag |-> "box", width |-> el_width[1], kid |-> elem]]
    ELSE elem

\* The two nested divs of a block that carries a width fraction.
Wrap(elem, el_width) ==
    IF el_width # None
    THEN [tag |-> "outer-box", style |-> "flex-center",
          kid |-> [tag |-> "box", width |-> el_width[1], kid |-> elem]]
    ELSE elem

\* split_paragraphs_preserving_math yields no paragraph for blank text.
TextNode(content) ==
    IF content.text # ""
    THEN [tag |-> "paragraphs", text |-> content.text]
    ELSE [tag |-> "p", text |-> content.text]

header_tag == (1 :> "h1") @@ (2 :> "h2") @@ (3 :> "h3") @@ (4 :> "h4")

HeaderNode(content) == [tag |-> header_tag[content.level], text |-> content.text]

DownloadNode(content) ==
    [tag |-> "download",
     label |-> IF TruthyStr(content.label) THEN content.label[1] ELSE content.file_path,
     href |-> content.file_path]

SyntaxNode(content) == [tag |-> "syntax", code |-> content.code, language |-> content.language]

\* An align value other than left, right, center becomes center.
AlignOf(specified_align) ==
    IF specified_align \notin {"left", "right", "center"} THEN "center" ELSE specified_align

\* A serialized figure: the pixel size of its box, the alignment box around it, and
\* the dimensions the figure had when it was serialized.
PlotNode(via, height, width_px, align, drawn) ==
    [tag |-> "plot", via |-> via, height |-> height, width_px |-> width_px,
     align |-> AlignOf(align), drawn |-> drawn]

\* len(content) of a plot payload.
PlotLen(content) == Cardinality(DOMAIN content)

\* The payload tuple itself, taken for the figure: it has neither to_html nor savefig.
TupleObj == "tuple"

FigHasToHtml(fig) == fig # TupleObj /\ HasToHtml(fig)

\* savefig draws an image of fewer pixels than this a side.
MaxImagePixels == 65536

\* The raster path raises for a figure of that many pixels a side, or more.
TooLarge(fig, dims) ==
    /\ ~HasToHtml(fig)
    /\ \/ dims.height # None /\ dims.height[1] >= MaxImagePixels
       \/ dims.width # None /\ dims.width[1] >= MaxImagePixels

\* Serializing the object raises: it is no figure, or a figure that cannot be
\* serialized, or one that cannot be drawn at its present dimensions.
FigRaises(fig, dims) == fig = TupleObj \/ SerializeRaises(fig) \/ TooLarge(fig, dims)

\* Page.render, kind == "plot": a payload of 4, 3 or 2 items is unpacked.
PageUnpack(content) ==
    IF PlotLen(content) = 4
    THEN [fig |-> content.plot, height |-> content.height, width_px |-> content.width_px,
          align |-> Some(content.align)]
    ELSE [fig |-> TupleObj, height |-> None, width_px |-> None, align |-> Some("center")]

\* MiniPage.render, kind == "plot": only payloads of 3 or 2 items are unpacked, and
\* the local specified_align is assigned nowhere before it is read.
MiniUnpack(content) ==
    IF PlotLen(content) = 3
    THEN [fig |-> content.plot, height |-> content.height, width_px |-> content.width_px,
          align |-> None]
    ELSE [fig |-> TupleObj, height |-> None, width_px |-> None, align |-> None]

\* The dimensions a figure has when the caller hands it over: a Plotly layout with no
\* height or width set, a Matplotlib figure with its size (in pixels at its dpi).
\* Neither has a font family set.
FigInit ==
    [fig \in Figures |-> IF HasToHtml(fig)
                         THEN [height |-> None, width |-> None, font_family |-> None]
                         ELSE [height |-> Some(480), width |-> Some(640),
                               font_family |-> None]]

\* The height and width of a figure.
Dims(d) == [height |-> d.height, width |-> d.width]

\* The font family that render sets on a Plotly figure that has none.
RobustFont ==
    "-apple-system, BlinkMacSystemFont, \"Segoe UI\", Roboto, \"Helvetica Neue\", Arial, sans-serif"

\* if not font_family: fig.update_layout(font_family=...), before serialization
\* and outside its try block; nothing sets the family back.
SetFont(u, dims) ==
    IF FigHasToHtml(u.fig) /\ dims.font_family = None
    THEN [dims EXCEPT !.font_family = Some(RobustFont)]
    ELSE dims

\* update_layout(height=..., width=...) / set_size_inches(new_w, new_h): only the
\* dimensions that were specified are overridden.
Override(dims, u) ==
    [dims EXCEPT !.height = IF u.height # None THEN u.height ELSE dims.height,
                 !.width = IF u.width_px # None THEN u.width_px ELSE dims.width]

\* The restore statements: the specified dimensions are set back to the originals.
Restore(dims, orig, u) ==
    [dims EXCEPT !.height = IF u.height # None THEN orig.height ELSE dims.height,
                 !.width = IF u.width_px # None THEN orig.width ELSE dims.width]

\* The plot sub-algorithm without its restore statements.
PlotDimsKept(u, dims) == Override(SetFont(u, dims), u)

\* The dimensions of the figure after the plot sub-algorithm.  The restore statements
\* follow the serialization inside the same try block: an exception raised by to_html
\* or savefig (or, on the Plotly path, by the read of specified_align) skips them.
PlotDims(u, dims) ==
    IF FigRaises(u.fig, Override(dims, u)) \/ (FigHasToHtml(u.fig) /\ u.align = None)
    THEN Override(SetFont(u, dims), u)
    ELSE Restore(Override(SetFont(u, dims), u), dims, u)

\* The dimensions at which the plot sub-algorithm serializes: those of the figure
\* with the override applied.
DrawnDims(u, f) ==
    IF u.fig = TupleObj THEN [height |-> None, width |-> None]
    ELSE Dims(Override(f[u.fig], u))

\* The plot sub-algorithm after unpacking, the same text in both render methods:
\* any exception inside it becomes a placeholder.  f holds the figures' dimensions.
PlotElem(u, f) ==
    LET Serialized(drawn) ==
            IF FigHasToHtml(u.fig)
            THEN IF FigRaises(u.fig, drawn)
                 THEN Placeholder("Plotly figure could not be rendered", "Exception")
                 ELSE IF u.align = None
                      THEN Placeholder("Plotly figure could not be rendered",
                                       "UnboundLocalError")
                      ELSE PlotNode("plotly", u.height, u.width_px, u.align[1], drawn)
            ELSE IF FigRaises(u.fig, drawn)
                 THEN Placeholder("Matplotlib figure could not be rendered",
                                  IF u.fig = TupleObj THEN "AttributeError" ELSE "Exception")
                 ELSE IF u.align = None
                      THEN Placeholder("Matplotlib figure could not be rendered",
                                       "UnboundLocalError")
                      ELSE PlotNode("png", u.height, u.width_px, u.align[1], drawn)
    IN  Serialized(DrawnDims(u, f))

PagePlot(content, f) == PlotElem(PageUnpack(content), f)

MiniPlot(content, f) == PlotElem(MiniUnpack(content), f)

\* Page.render, kind == "table": the try/except around df.to_html.
PageTable(content) ==
    IF ToHtmlRaises(content.df)
    THEN Placeholder("Table could not be rendered", "Exception")
    ELSE [tag |-> "table-div", table |-> content.df]

\* MiniPage.render, kind == "table": no try/except.
MiniTable(content) ==
    IF ToHtmlRaises(content.df)
    THEN Raise("Exception")
    ELSE [tag |-> "table", table |-> content.df]

----------------------------------------------------------------------------
(* MiniPage.render and Page.render.                                         *)

\* Deeper than any nesting without a cycle: Python's recursion limit.
RenderFuel == Cardinality(MiniIds) + 1

Done(kids) == [tag |-> "ok", kids |-> kids]

\* elem = None: the kind of the block is none of those the dispatch knows.
NoElem == [tag |-> "none"]

\* div(elem, ...) of dominate: None is neither a tag nor a string, ValueError.
DivOf(elem, node) ==
    IF IsRaise(elem) THEN elem ELSE IF elem = NoElem THEN Raise("ValueError") ELSE node

\* Page.render, the end of the loop body: the width box of a block that has a width.
PageBoxed(elem, block) ==
    IF block.width # None THEN DivOf(elem, Wrap(elem, block.width)) ELSE elem

\* MiniPage.render, the end of the loop body: the width box and the cell.
MiniCell(elem, block) ==
    DivOf(elem, [tag |-> "minipage-cell", kid |-> Wrap(elem, block.width)])

RECURSIVE MiniRender(_, _, _, _, _, _)
RECURSIVE MiniLoop(_, _, _, _)
RECURSIVE MiniFigs(_, _, _)
RECURSIVE MiniFigsLoop(_, _, _)

\* The effective width of a MiniPage: its own, else the inherited one.
MiniWidthInheritedFirst(m, inherited_width) == OrInt(inherited_width, page_width[m])

MiniWidth(m, inherited_width) == OrInt(page_width[m], inherited_width)

\* MiniPage.render's dispatch with a nested MiniPage rendered from the copy taken
\* when it was added, before it had any block.
MiniElemCopied(block, ctx, fuel) ==
    CASE block.kind = "text" -> TextNode(block.content)
      [] block.kind = "header" -> HeaderNode(block.content)
      [] block.kind = "plot" -> MiniPlot(block.content, ctx.figs)
      [] block.kind = "table" -> MiniTable(block.content)
      [] block.kind = "download" -> DownloadNode(block.content)
      [] block.kind = "syntax" -> SyntaxNode(block.content)
      [] block.kind = "minipage" ->
            [tag |-> "minipage-row",
             width |-> MiniWidth(block.content.minipage, ctx.width), cells |-> <<>>]
      [] OTHER -> NoElem

\* One iteration of MiniPage.render's loop, before the width box and the cell.
MiniElem(block, ctx, fuel) ==
    CASE block.kind = "text" -> TextNode(block.content)
      [] block.kind = "header" -> HeaderNode(block.content)
      [] block.kind = "plot" -> MiniPlot(block.content, ctx.figs)
      [] block.kind = "table" -> MiniTable(block.content)
      [] block.kind = "download" -> DownloadNode(block.content)
      [] block.kind = "syntax" -> SyntaxNode(block.content)
      [] block.kind = "minipage" ->
            MiniRender(block.content.minipage, ctx.width, ctx.marking, ctx.distribution,
                       ctx.figs, fuel)
      [] OTHER -> NoElem

\* The figures after one plot block; the payload tuple taken for a figure is no figure.
PlotFigs(u, f) ==
    IF u.fig = TupleObj THEN f ELSE [f EXCEPT ![u.fig] = PlotDims(u, @)]

\* Whether a block raises does not depend on the inherited width or marking.
NoCtx(f) == [width |-> None, marking |-> None, distribution |-> None, figs |-> f]

\* The figures after one iteration of MiniPage.render's loop.
MiniBlockFigs(block, f, fuel) ==
    CASE block.kind = "plot" -> PlotFigs(MiniUnpack(block.content), f)
      [] block.kind = "minipage" -> MiniFigs(block.content.minipage, f, fuel)
      [] OTHER -> f

\* The figures after MiniPage.render's loop, which stops at the block that raises.
MiniFigsLoop(blocks, f, fuel) ==
    IF blocks = <<>>
    THEN f
    ELSE LET block == Head(blocks)
             Rest(after) ==
                 IF IsRaise(MiniCell(MiniElem(block, NoCtx(f), fuel), block))
                 THEN after
                 ELSE MiniFigsLoop(Tail(blocks), after, fuel)
         IN  Rest(MiniBlockFigs(block, f, fuel))

\* The figures after one call of MiniPage.render.
MiniFigs(m, f, fuel) ==
    IF fuel = 0 THEN f ELSE MiniFigsLoop(elements[m], f, fuel - 1)

\* MiniPage.render's loop with the row of a nested MiniPage put into the row as it
\* is, without a cell of its own.
MiniLoopBareRows(blocks, cells, ctx, fuel) ==
    IF blocks = <<>>
    THEN Done(cells)
    ELSE LET block == Head(blocks)
             Cell(cell) ==
                 IF IsRaise(cell)
                 THEN cell
                 ELSE MiniLoop(Tail(blocks),
                        Append(cells, IF block.kind = "minipage" THEN cell.kid ELSE cell),
                        [ctx EXCEPT !.figs = MiniBlockFigs(block, @, fuel)], fuel)
         IN  Cell(MiniCell(MiniElem(block, ctx, fuel), block))

\* MiniPage.render's loop: each block is rendered with the figures as the blocks
\* before it left them.
MiniLoop(blocks, cells, ctx, fuel) ==
    IF blocks = <<>>
    THEN Done(cells)
    ELSE LET block == Head(blocks)
             Cell(cell) ==
                 IF IsRaise(cell)
                 THEN cell
                 ELSE MiniLoop(Tail(blocks), Append(cells, cell),
                        [ctx EXCEPT !.figs = MiniBlockFigs(block, @, fuel)], fuel)
         IN  Cell(MiniCell(MiniElem(block, ctx, fuel), block))

MiniRender(m, inherited_width, inherited_marking, inherited_distribution, f, fuel) ==
    IF fuel = 0
    THEN Raise("RecursionError")
    ELSE LET effective_width == MiniWidth(m, inherited_width)
             ctx == [width |-> effective_width, marking |-> inherited_marking,
                     distribution |-> inherited_distribution, figs |-> f]
             Row(row) ==
                 IF IsRaise(row)
                 THEN row
                 ELSE [tag |-> "minipage-row", width |-> effective_width,
                       cells |-> row.kids]
         IN  Row(MiniLoop(elements[m], <<>>, ctx, fuel - 1))

\* The effective width of a Page inside render.
PageWidth(p, inherited_width) == OrInt(page_width[p], inherited_width)

\* The marking resolved with `or`, so that an empty marking inherits.
MarkingOr(p, inherited_marking) == OrStr(marking[p], inherited_marking)

\* The effective marking of a Page: its own unless None.
EffectiveMarking(p, inherited_marking) ==
    IF marking[p] # None THEN marking[p] ELSE inherited_marking

\* A Page has no attribute `distribution`: getattr yields None.
EffectiveDistribution(p, inherited_distribution) == OrStr(None, inherited_distribution)

OverlaysAlways(effective_marking, effective_distribution) ==
    IF effective_marking # None
    THEN << [tag |-> "floating-header", text |-> effective_marking[1]],
            [tag |-> "floating-footer", text |-> effective_marking[1],
             distribution |-> IF TruthyStr(effective_distribution)
                              THEN effective_distribution ELSE None] >>
    ELSE <<>>

\* The header and footer bars, only when a marking is present.
Overlays(effective_marking, effective_distribution) ==
    IF TruthyStr(effective_marking)
    THEN << [tag |-> "floating-header", text |-> effective_marking[1]],
            [tag |-> "floating-footer", text |-> effective_marking[1],
             distribution |-> IF TruthyStr(effective_distribution)
                              THEN effective_distribution ELSE None] >>
    ELSE <<>>

\* One iteration of Page.render's loop, before the width box.
PageElem(block, ctx) ==
    CASE block.kind = "text" -> TextNode(block.content)
      [] block.kind = "header" -> HeaderNode(block.content)
      [] block.kind = "plot" -> PagePlot(block.content, ctx.figs)
      [] block.kind = "table" -> PageTable(block.content)
      [] block.kind = "download" -> DownloadNode(block.content)
      [] block.kind = "syntax" -> SyntaxNode(block.content)
      [] block.kind = "minipage" ->
            MiniRender(block.content.minipage, ctx.width, ctx.marking, ctx.distribution,
                       ctx.figs, RenderFuel)
      [] OTHER -> NoElem

\* The figures after one iteration of Page.render's loop.
PageBlockFigs(block, f) ==
    CASE block.kind = "plot" -> PlotFigs(PageUnpack(block.content), f)
      [] block.kind = "minipage" -> MiniFigs(block.content.minipage, f, RenderFuel)
      [] OTHER -> f

RECURSIVE PageFigsLoop(_, _)

\* The figures after Page.render's loop, which stops at the block that raises.
PageFigsLoop(blocks, f) ==
    IF blocks = <<>>
    THEN f
    ELSE LET block == Head(blocks)
             Rest(after) ==
                 IF IsRaise(PageBoxed(PageElem(block, NoCtx(f)), block))
                 THEN after
                 ELSE PageFigsLoop(Tail(blocks), after)
         IN  Rest(PageBlockFigs(block, f))

\* The figures after one call of Page.render.
PageFigs(p, f) == PageFigsLoop(elements[p], f)

RECURSIVE PageLoop(_, _, _)

PageLoopReversed(blocks, elems, ctx) ==
    IF blocks = <<>>
    THEN Done(elems)
    ELSE LET block == Head(blocks)
             Boxed(elem) ==
                 IF IsRaise(elem)
                 THEN elem
                 ELSE PageLoop(Tail(blocks), <<elem>> \o elems,
                               [ctx EXCEPT !.figs = PageBlockFigs(block, @)])
         IN  Boxed(PageBoxed(PageElem(block, ctx), block))

PageLoop(blocks, elems, ctx) ==
    IF blocks = <<>>
    THEN Done(elems)
    ELSE LET block == Head(blocks)
             Boxed(elem) ==
                 IF IsRaise(elem)
                 THEN elem
                 ELSE PageLoop(Tail(blocks), Append(elems, elem),
                               [ctx EXCEPT !.figs = PageBlockFigs(block, @)])
         IN  Boxed(PageBoxed(PageElem(block, ctx), block))

\* Page.render: the wrapper node, or the exception that leaves it.  f holds the
\* dimensions of the figures when the call starts.
PageRender(p, inherited_width, inherited_marking, inherited_distribution, f) ==
    LET effective_width == PageWidth(p, inherited_width)
        effective_marking == EffectiveMarking(p, inherited_marking)
        effective_distribution == EffectiveDistribution(p, inherited_distribution)
        ctx == [width |-> effective_width, marking |-> effective_marking,
                distribution |-> effective_distribution, figs |-> f]
        Wrapper(body) ==
            IF IsRaise(body)
            THEN body
            ELSE IF \E i \in 1..Len(body.kids) : body.kids[i] = NoElem
            THEN Raise("ValueError")
            ELSE [tag |-> "wrapper", width |-> effective_width, kids |-> body.kids]
    IN  Wrapper(PageLoop(elements[p],
                         Overlays(effective_marking, effective_distribution), ctx))

----------------------------------------------------------------------------
(* Dashboard._render_sidebar.                                               *)

\* Deeper than any page tree without a cycle: Python's recursion limit.
PageFuel == Cardinality(PageIds) + 1

\* Every page, and the Dashboard, is titled by its name.
Title(o) == o

RECURSIVE has_active_child(_, _, _)

\* has_active_child: some descendant of pg has the current slug.  On a cycle the
\* recursion of _render_sidebar below overflows whatever this returns.
has_active_child(pg, current_slug, fuel) ==
    /\ fuel > 0
    /\ \E i \in 1..Len(children[pg]) :
          \/ slug[children[pg][i]] = current_slug
          \/ has_active_child(children[pg][i], current_slug, fuel - 1)

\* Every link written without the prefix.
HrefUnprefixed(prefix, page) == [prefix |-> "", slug |-> slug[page]]

\* f"{prefix}{page.slug}.html"
Href(prefix, page) == [prefix |-> prefix, slug |-> slug[page]]

\* The link of a page without sub-pages carries the active class as well.
LeafLinkActive(page, prefix, current_slug) ==
    [tag |-> "nav-link",
     classes |-> {"nav-link"} \cup (IF slug[page] = current_slug THEN {"active"} ELSE {}),
     href |-> Href(prefix, page), title |-> Title(page)]

\* The link of a page without sub-pages: its class is "nav-link", whatever is_active.
LeafLink(page, prefix, current_slug) ==
    [tag |-> "nav-link", classes |-> {"nav-link"},
     href |-> Href(prefix, page), title |-> Title(page)]

\* The link of a page with sub-pages.
ParentLink(page, prefix, current_slug) ==
    [tag |-> "nav-link",
     classes |-> {"nav-link", "sidebar-parent"}
                 \cup (IF slug[page] = current_slug THEN {"active"} ELSE {}),
     href |-> Href(prefix, page), title |-> Title(page)]

RECURSIVE RenderSidebar(_, _, _, _)
RECURSIVE SidebarLoop(_, _, _, _, _)

\* One iteration of _render_sidebar's loop.
SidebarItem(page, prefix, current_slug, fuel) ==
    LET is_active == slug[page] = current_slug
        group_open == has_active_child(page, current_slug, PageFuel)
    IN  IF children[page] # <<>>
        THEN LET Group(kids) ==
                     IF IsRaise(kids)
                     THEN kids
                     ELSE [tag |-> "sidebar-group",
                           classes |-> {"sidebar-group"} \cup
                                       (IF group_open \/ is_active THEN {"open"} ELSE {}),
                           link |-> ParentLink(page, prefix, current_slug),
                           kids |-> kids.kids]
             IN  Group(RenderSidebar(children[page], prefix, current_slug, fuel))
        ELSE LeafLink(page, prefix, current_slug)

SidebarLoop(list, items, prefix, current_slug, fuel) ==
    IF list = <<>>
    THEN Done(items)
    ELSE LET Item(item) ==
                 IF IsRaise(item)
                 THEN item
                 ELSE SidebarLoop(Tail(list), Append(items, item), prefix, current_slug,
                                  fuel)
         IN  Item(SidebarItem(Head(list), prefix, current_slug, fuel))

\* _render_sidebar(pages, prefix, current_slug): the items, or the RecursionError of
\* a page list that contains itself.
RenderSidebar(list, prefix, current_slug, fuel) ==
    IF fuel = 0
    THEN Raise("RecursionError")
    ELSE SidebarLoop(list, <<>>, prefix, current_slug, fuel - 1)

----------------------------------------------------------------------------
(* Dashboard.publish.                                                       *)

\* The width of the .content-inner rule when neither the page nor the Dashboard has one.
DefaultWidth == 900

PagePath(page) == <<"pages", slug[page]>>

IndexPath == <<"index.html">>

\* A file written only where no file is yet.
WrittenOnce(fl, path, doc) ==
    IF path \in DOMAIN fl
    THEN fl
    ELSE [q \in (DOMAIN fl) \cup {path} |-> IF q = path THEN doc ELSE fl[q]]

\* A file written over whatever was at the path.
Written(fl, path, doc) == [q \in (DOMAIN fl) \cup {path} |-> IF q = path THEN doc ELSE fl[q]]

\* href="../index.html" in a page file, href="index.html" in the index page.
HomeLink(rel_prefix) == [prefix |-> rel_prefix, file |-> "index.html"]

\* The document of a page: its title, the width of the head's style rule, the
\* navigation panel inside #sidebar (the title link, the items, the footer link) and
\* the rendered wrapper inside #content.
Document(title, page, home, sidebar, content) ==
    [title |-> title,
     sidebar_title |-> home,
     sidebar_footer |-> home,
     head_width |-> OrInt(page_width[page], OrInt(page_width[Dash], Some(DefaultWidth))),
     sidebar |-> sidebar,
     content |-> content]

\* The render call with the marking handed down from the parent page.
RenderFromParent(page, parent, f) ==
    PageRender(page, page_width[Dash],
               IF parent = Dash THEN marking[Dash] ELSE EffectiveMarking(parent, marking[Dash]),
               distribution, f)

\* The render call of write_page and of the index page: every page, whatever its
\* parent (the Dashboard or a page), is handed the Dashboard's width, marking and
\* distribution.
RenderTop(page, parent, f) ==
    PageRender(page, page_width[Dash], marking[Dash], distribution, f)

\* open(path, "w") and f.write(str(doc))
WriteFile(st, path, doc) ==
    [st EXCEPT !.files = Written(@, path, doc), !.log = Append(@, path)]

RECURSIVE WritePage(_, _, _, _)
RECURSIVE WritePages(_, _, _, _)

\* write_page with the file of a page written after the files of its sub-pages.
WritePageChildrenFirst(page, parent, st, fuel) ==
    IF st.exc # NoExc
    THEN st
    ELSE IF fuel = 0
    THEN [st EXCEPT !.exc = "RecursionError"]
    ELSE LET Last(after, doc) ==
                 IF after.exc # NoExc THEN after ELSE WriteFile(after, PagePath(page), doc)
             Write(sidebar, content, rendered) ==
                 IF IsRaise(sidebar)
                 THEN [st EXCEPT !.exc = sidebar.exc]
                 ELSE IF IsRaise(content)
                 THEN [rendered EXCEPT !.exc = content.exc]
                 ELSE Last(WritePages(children[page], page, rendered, fuel - 1),
                           Document(Title(page), page, HomeLink("../"), sidebar.kids, content))
         IN  Write(RenderSidebar(pages, "", slug[page], PageFuel),
                   RenderTop(page, parent, st.figs),
                   [st EXCEPT !.figs = PageFigs(page, @)])

\* write_page: st is [files, log, figs, exc], the output and the figures so far and
\* the exception raised.  The sidebar is rendered first, then the page, then the
\* file is written, then the sub-pages are visited.
WritePage(page, parent, st, fuel) ==
    IF st.exc # NoExc
    THEN st
    ELSE IF fuel = 0
    THEN [st EXCEPT !.exc = "RecursionError"]
    ELSE LET Write(sidebar, content, rendered) ==
                 IF IsRaise(sidebar)
                 THEN [st EXCEPT !.exc = sidebar.exc]
                 ELSE IF IsRaise(content)
                 THEN [rendered EXCEPT !.exc = content.exc]
                 ELSE WritePages(children[page], page,
                         WriteFile(rendered, PagePath(page),
                             Document(Title(page), page, HomeLink("../"), sidebar.kids, content)),
                         fuel - 1)
         IN  Write(RenderSidebar(pages, "", slug[page], PageFuel),
                   RenderTop(page, parent, st.figs),
                   [st EXCEPT !.figs = PageFigs(page, @)])

WritePages(list, parent, st, fuel) ==
    IF list = <<>> \/ st.exc # NoExc
    THEN st
    ELSE WritePages(Tail(list), parent, WritePage(Head(list), parent, st, fuel), fuel)

\* The index page rendered from the last top-level page.
WriteIndexOfLast(st) ==
    IF st.exc # NoExc
    THEN st
    ELSE IF pages = <<>>
    THEN [st EXCEPT !.exc = "IndexError"]
    ELSE LET page == pages[Len(pages)]
             Write(sidebar, content, rendered) ==
                 IF IsRaise(sidebar)
                 THEN [st EXCEPT !.exc = sidebar.exc]
                 ELSE IF IsRaise(content)
                 THEN [rendered EXCEPT !.exc = content.exc]
                 ELSE WriteFile(rendered, IndexPath,
                         Document(Title(Dash), page, HomeLink(""), sidebar.kids, content))
         IN  Write(RenderSidebar(pages, "pages/", slug[page], PageFuel),
                   RenderTop(page, Dash, st.figs),
                   [st EXCEPT !.figs = PageFigs(page, @)])

\* The index page after the loop over self.pages: self.pages[0] rendered once more.
WriteIndex(st) ==
    IF st.exc # NoExc
    THEN st
    ELSE IF pages = <<>>
    THEN [st EXCEPT !.exc = "IndexError"]
    ELSE LET Write(sidebar, content, rendered) ==
                 IF IsRaise(sidebar)
                 THEN [st EXCEPT !.exc = sidebar.exc]
                 ELSE IF IsRaise(content)
                 THEN [rendered EXCEPT !.exc = content.exc]
                 ELSE WriteFile(rendered, IndexPath,
                         Document(Title(Dash), pages[1], HomeLink(""), sidebar.kids, content))
         IN  Write(RenderSidebar(pages, "pages/", slug[pages[1]], PageFuel),
                   RenderTop(pages[1], Dash, st.figs),
                   [st EXCEPT !.figs = PageFigs(pages[1], @)])

Published ==
    WriteIndex(WritePages(pages, Dash,
        [files |-> files, log |-> <<>>, figs |-> figs, exc |-> NoExc], PageFuel))

Publish ==
    LET Result(st) ==
            /\ files' = st.files
            /\ log' = st.log
            /\ figs' = st.figs
            /\ last' = Call("publish", Dash, [output_dir |-> "output"], st.exc)
    IN  /\ Result(Published)
        /\ UNCHANGED <<elements, tree, fs, beside>>

----------------------------------------------------------------------------
(* Specifications.  A run builds a Dashboard with the construction API and *)
(* then publishes it.                                                      *)

NoFiles == [q \in {} |-> None]

Building == files = NoFiles /\ last.op # "publish"

Paths == {"a.csv", "gone.csv", "reports"}

\* Nothing split, an empty Directory not yet published, no simpledash page loaded.
InitBeside ==
    /\ input_text = <<>>
    /\ paragraphs = <<>>
    /\ dashboards = <<>>
    /\ sites = NoFiles
    /\ simple_pages = <<>>
    /\ display = <<>>
    /\ active = {}

\* Containers without blocks and sub-pages, nothing published.
InitObjects ==
    /\ elements = [c \in Containers |-> <<>>]
    /\ slug = [p \in PageIds |-> p]
    /\ children = [p \in PageIds |-> <<>>]
    /\ fs = [path \in Paths |-> CASE path = "a.csv" -> "file"
                                  [] path = "reports" -> "dir"
                                  [] OTHER -> "absent"]
    /\ files = NoFiles
    /\ figs = FigInit
    /\ log = <<>>
    /\ last = Call("init", Dash, [title |-> Title(Dash)], NoExc)

InitBase == InitBeside /\ InitObjects

\* A Dashboard of default width without marking and without pages.
InitPlain ==
    /\ InitObjects
    /\ page_width = [c \in Containers \cup {Dash} |->
                        IF c = Dash THEN Some(DefaultWidth) ELSE None]
    /\ marking = [o \in PageIds \cup {Dash} |-> None]
    /\ distribution = None
    /\ pages = <<>>

\* Dashboard(title) with one Page("p1", ...) added; MiniPage() objects m1, m2.
Init ==
    /\ InitBase
    /\ page_width = [c \in Containers \cup {Dash} |->
                        IF c = Dash THEN Some(DefaultWidth) ELSE None]
    /\ marking = [o \in PageIds \cup {Dash} |-> None]
    /\ distribution = None
    /\ pages = <<"p1">>

\* Every append operation, on the page p1 and on the MiniPage m1.
Next ==
    \/ Building /\ \E c \in {"p1", "m1"}, level \in {0, 1} : AddHeader(c, "H", level, None)
    \/ Building /\ \E c \in {"p1", "m1"} : AddText(c, "t", None)
    \/ Building /\ \E c \in {"p1", "m1"} : AddPlot(c, "fig_plotly", None, None, None, "center")
    \/ Building /\ \E c \in {"p1", "m1"} : AddTable(c, "df", None)
    \/ Building /\ \E c \in {"p1", "m1"}, path \in {"a.csv", "gone.csv"} :
                        AddDownload(c, path, None, None)
    \/ Building /\ \E c \in {"p1", "m1"} : AddSyntax(c, "x = 1", "python", None)
    \/ Building /\ AddMinipage("p1", "m1", None)
    \/ Publish

Spec == Init /\ [][Next]_vars

----------------------------------------------------------------------------
(* Reading the output.                                                      *)

PublishedOk == last.op = "publish" /\ last.exc = NoExc

\* The node of a block inside its width box, if it has one.
Unboxed(node) == IF node.tag = "outer-box" THEN node.kid.kid ELSE node

\* The block kind a node is the rendering of.
KindOf(node) ==
    CASE node.tag \in {"h1", "h2", "h3", "h4"} -> "header"
      [] node.tag \in {"paragraphs", "p"} -> "text"
      [] node.tag = "plot" -> "plot"
      [] node.tag = "placeholder" ->
            IF node.text = "Table could not be rendered" THEN "table" ELSE "plot"
      [] node.tag \in {"table-div", "table"} -> "table"
      [] node.tag = "download" -> "download"
      [] node.tag = "syntax" -> "syntax"
      [] node.tag = "minipage-row" -> "minipage"
      [] OTHER -> "unknown"

\* The wrapper of a page in the document at a path.
WrapperAt(path) == files[path].content

\* The nodes of a wrapper after its overlays, one per block.
BlockNodes(wrapper) ==
    LET n == Len(wrapper.kids)
        first == Cardinality({i \in 1..n :
                    wrapper.kids[i].tag \in {"floating-header", "floating-footer"}})
    IN  SubSeq(wrapper.kids, first + 1, n)

\* The nodes of a row, one per cell.
CellNodes(row) == [i \in 1..Len(row.cells) |-> Unboxed(row.cells[i].kid)]

KindsOfNodes(nodes) == [i \in 1..Len(nodes) |-> KindOf(Unboxed(nodes[i]))]

KindsOfBlocks(blocks) == [i \in 1..Len(blocks) |-> blocks[i].kind]

AddOps == {"add_header", "add_text", "add_plot", "add_table", "add_download",
           "add_minipage", "add_syntax"}

KindOfOp(op) ==
    CASE op = "add_header" -> "header"
      [] op = "add_text" -> "text"
      [] op = "add_plot" -> "plot"
      [] op = "add_table" -> "table"
      [] op = "add_download" -> "download"
      [] op = "add_minipage" -> "minipage"
      [] op = "add_syntax" -> "syntax"

----------------------------------------------------------------------------
(* C1: a container's block sequence is exactly its successful appends in   *)
(* call order, and render emits the blocks' nodes in that order.           *)

\* A step changes a container's blocks only by a successful add_* call on it, which
\* appends one block of the call's kind and leaves the earlier blocks as they were.
C1_AppendOnlyStep ==
    \A c \in Containers :
        IF last'.op \in AddOps /\ last'.target = c /\ last'.exc = NoExc
        THEN /\ Len(elements'[c]) = Len(elements[c]) + 1
             /\ SubSeq(elements'[c], 1, Len(elements[c])) = elements[c]
             /\ elements'[c][Len(elements'[c])].kind = KindOfOp(last'.op)
        ELSE elements'[c] = elements[c]

\* In the published index page the wrapper of p1 holds one node per block of p1, in
\* block order, and each row of m1 holds one cell per block of m1, in block order.
C1_RenderInOrder ==
    PublishedOk =>
        LET nodes == BlockNodes(WrapperAt(IndexPath))
        IN  /\ KindsOfNodes(nodes) = KindsOfBlocks(elements["p1"])
            /\ \A i \in 1..Len(nodes) :
                  KindOf(nodes[i]) = "minipage" =>
                      KindsOfNodes(CellNodes(nodes[i])) = KindsOfBlocks(elements["m1"])

\* C1: every step is append-only and every published page shows its blocks in order.
C1_AppendOnlyInOrder == [][C1_AppendOnlyStep]_vars /\ []C1_RenderInOrder

\* A page of two blocks of different kinds, one of them a row of two cells of
\* different kinds, has been published.
C1_Witness ==
    /\ PublishedOk
    /\ Len(elements["p1"]) >= 2
    /\ Len(elements["m1"]) >= 2
    /\ elements["p1"][1].kind # elements["p1"][2].kind
    /\ elements["m1"][1].kind # elements["m1"][2].kind
    /\ \E i \in 1..Len(elements["p1"]) : elements["p1"][i].kind = "minipage"

----------------------------------------------------------------------------
(* C2: add_header accepts the levels 1..4, appends one header block that   *)
(* renders as a heading of that rank in a Page and in a MiniPage, and      *)
(* fails on any other level without changing the container.                *)

HeaderLevels == 0..5

\* Headers of every level, valid or not, on the page p1 and on the MiniPage m1.
NextHeader ==
    \/ Building /\ \E c \in {"p1", "m1"}, level \in HeaderLevels :
                        AddHeader(c, "H", level, None)
    \/ Building /\ AddMinipage("p1", "m1", None)
    \/ Publish

SpecHeader == Init /\ [][NextHeader]_vars

\* The rank of a heading node, 0 for any other node.
HeadingRank(node) ==
    CASE node.tag = "h1" -> 1
      [] node.tag = "h2" -> 2
      [] node.tag = "h3" -> 3
      [] node.tag = "h4" -> 4
      [] OTHER -> 0

\* A call of add_header with a level in 1..4 returns and appends the header block of
\* that text and level; with another level it raises and changes no container.
C2_CallStep ==
    last'.op = "add_header" =>
        LET c == last'.target
            a == last'.args
        IN  IF a.level \in {1, 2, 3, 4}
            THEN /\ last'.exc = NoExc
                 /\ elements' = [elements EXCEPT ![c] = Append(@,
                        Block("header", [text |-> a.text, level |-> a.level], a.width))]
            ELSE /\ last'.exc = "ValueError"
                 /\ elements' = elements

\* Every header block of a published page, and of a row inside it, is a heading
\* whose rank is the block's level.
C2_Rendered ==
    PublishedOk =>
        LET nodes == BlockNodes(WrapperAt(IndexPath))
        IN  \A i \in 1..Len(nodes) :
              /\ elements["p1"][i].kind = "header" =>
                    HeadingRank(nodes[i]) = elements["p1"][i].content.level
              /\ elements["p1"][i].kind = "minipage" =>
                    \A j \in 1..Len(elements["m1"]) :
                        elements["m1"][j].kind = "header" =>
                            HeadingRank(CellNodes(nodes[i])[j]) =
                                elements["m1"][j].content.level

\* C2: the call contract of add_header and the rank of the rendered headings.
C2_HeaderLevels == [][C2_CallStep]_vars /\ []C2_Rendered

\* A page with a level-4 header and a row holding a level-3 header has been published.
C2_Witness ==
    /\ PublishedOk
    /\ \E i \in 1..Len(elements["p1"]) : elements["p1"][i].kind = "minipage"
    /\ \E i \in 1..Len(elements["p1"]) :
          elements["p1"][i].kind = "header" /\ elements["p1"][i].content.level = 4
    /\ \E j \in 1..Len(elements["m1"]) :
          elements["m1"][j].kind = "header" /\ elements["m1"][j].content.level = 3

----------------------------------------------------------------------------
(* C3: add_download raises when the path is missing at the time of the     *)
(* call and appends nothing; when the path exists at the time of the call  *)
(* it appends one download block, which stays when the file is removed.    *)

\* Downloads of a file, of a missing path and of a directory, while the caller's
\* environment removes files.
NextDownload ==
    \/ Building /\ \E c \in {"p1", "m1"}, path \in Paths, label \in {None, Some("get")} :
                        AddDownload(c, path, label, None)
    \/ Building /\ AddMinipage("p1", "m1", None)
    \/ \E path \in Paths : RemoveFile(path)
    \/ Publish

SpecDownload == Init /\ [][NextDownload]_vars

\* What a call of add_download does when `accepted` says which paths it takes.
DownloadStep(accepted) ==
    last'.op = "add_download" =>
        LET c == last'.target
            a == last'.args
        IN  IF a.file_path \in accepted
            THEN /\ last'.exc = NoExc
                 /\ elements' = [elements EXCEPT ![c] = Append(@,
                        Block("download", [file_path |-> a.file_path, label |-> a.label],
                              a.width))]
            ELSE /\ last'.exc = "FileNotFoundError"
                 /\ elements' = elements

\* The claim as stated: every path that exists at the time of the call is accepted.
C3_ExistingPathAccepted == [][DownloadStep({path \in Paths : fs[path] # "absent"})]_vars

\* Removing a file changes no container.
C3_RemoveStep == last'.op = "remove" => elements' = elements

\* A download block is rendered as a link to its path whether or not the file is
\* still there.
C3_Rendered ==
    PublishedOk =>
        LET nodes == BlockNodes(WrapperAt(IndexPath))
        IN  \A i \in 1..Len(nodes) :
              elements["p1"][i].kind = "download" =>
                  /\ nodes[i].tag = "download"
                  /\ nodes[i].href = elements["p1"][i].content.file_path

\* C3 as amended: the paths accepted are those of a regular file at the time of the
\* call; a missing path and a directory raise and append nothing.
C3_RegularFileAccepted ==
    /\ [][DownloadStep({path \in Paths : fs[path] = "file"})]_vars
    /\ [][C3_RemoveStep]_vars
    /\ []C3_Rendered

\* A page holding a download block whose file has since been removed has been published.
C3_Witness ==
    /\ PublishedOk
    /\ \E i \in 1..Len(elements["p1"]) :
          /\ elements["p1"][i].kind = "download"
          /\ fs[elements["p1"][i].content.file_path] = "absent"

----------------------------------------------------------------------------
(* C4: the width a container is rendered at is its own width if set, else  *)
(* its parent's effective width, else the global default, down the nesting *)
(* Dashboard > Page p1 > MiniPage m1 > MiniPage m2.                        *)

Widths == {None, Some(600), Some(1200)}

\* Dashboard(page_width=...), Page("p1", ..., page_width=...), MiniPage(page_width=...)
\* with every combination of widths given or left out.
InitWidth ==
    /\ InitBase
    /\ page_width \in [Containers \cup {Dash} -> Widths]
    /\ page_width["p2"] = None /\ page_width["p3"] = None
    /\ marking = [o \in PageIds \cup {Dash} |-> None]
    /\ distribution = None
    /\ pages = <<"p1">>

NextWidth ==
    \/ Building /\ AddMinipage("p1", "m1", None)
    \/ Building /\ AddMinipage("m1", "m2", None)
    \/ Building /\ AddText("m2", "t", None)
    \/ Publish

SpecWidth == InitWidth /\ [][NextWidth]_vars

\* The width the claim gives a container: its own if set, else its parent's.
Cascaded(own, parent_width) == IF own # None THEN own ELSE parent_width

ClaimedDashWidth == Cascaded(page_width[Dash], Some(DefaultWidth))

ClaimedPageWidth == Cascaded(page_width["p1"], ClaimedDashWidth)

ClaimedM1Width == Cascaded(page_width["m1"], ClaimedPageWidth)

ClaimedM2Width == Cascaded(page_width["m2"], ClaimedM1Width)

\* C4: in the published index page the wrapper of p1, every row of m1 in it and
\* every row of m2 in those are rendered at the widths the claim gives them.
C4_WidthCascade ==
    PublishedOk =>
        LET wrapper == WrapperAt(IndexPath)
            nodes == BlockNodes(wrapper)
        IN  /\ wrapper.width = ClaimedPageWidth
            /\ \A i \in 1..Len(nodes) :
                  /\ nodes[i].width = ClaimedM1Width
                  /\ \A j \in 1..Len(CellNodes(nodes[i])) :
                        CellNodes(nodes[i])[j].width = ClaimedM2Width

----------------------------------------------------------------------------
(* Markings: the tree Dashboard > p1 > p2 > p3 with a MiniPage m1 in p1.    *)

PageMarkings == {None, Some(""), Some("Y")}

DashMarkings == {None, Some(""), Some("X")}

\* Page(slug, title, marking=...) for every page, Dashboard(distribution=...).
InitMarking ==
    /\ InitBase
    /\ page_width = [c \in Containers \cup {Dash} |->
                        IF c = Dash THEN Some(DefaultWidth) ELSE None]
    /\ marking \in [PageIds \cup {Dash} -> PageMarkings]
    /\ marking[Dash] = None
    /\ distribution \in {None, Some("D")}
    /\ pages = <<>>

NextMarking ==
    \/ Building /\ AddPage("p1")
    \/ Building /\ AddSubpage("p1", "p2")
    \/ Building /\ AddSubpage("p2", "p3")
    \/ Building /\ AddMinipage("p1", "m1", None)
    \/ \E value \in DashMarkings : SetMarking(Dash, value)
    \/ Publish

SpecMarking == InitMarking /\ [][NextMarking]_vars

\* What is shown for a marking or a distribution: nothing for None and for "".
Shown(value) == IF TruthyStr(value) THEN value ELSE None

\* The text of the header overlay of a wrapper, None when it has none.
OverlayText(wrapper) ==
    LET at == {i \in 1..Len(wrapper.kids) : wrapper.kids[i].tag = "floating-header"}
    IN  IF at = {} THEN None ELSE Some(wrapper.kids[CHOOSE i \in at : TRUE].text)

\* The distribution statement in the footer overlay of a wrapper, None when absent.
OverlayDistribution(wrapper) ==
    LET at == {i \in 1..Len(wrapper.kids) : wrapper.kids[i].tag = "floating-footer"}
    IN  IF at = {} THEN None ELSE wrapper.kids[CHOOSE i \in at : TRUE].distribution

\* The pages write_page reaches when p1 is a top-level page.
IsWritten(page) ==
    LET top == \E i \in 1..Len(pages) : pages[i] = "p1"
        sub == \E i \in 1..Len(children["p1"]) : children["p1"][i] = "p2"
        subsub == \E i \in 1..Len(children["p2"]) : children["p2"][i] = "p3"
    IN  CASE page = "p1" -> top
          [] page = "p2" -> top /\ sub
          [] page = "p3" -> top /\ sub /\ subsub

\* A marking of its own if the page has one, else the Dashboard's.
OwnOrDashboard(page) == IF marking[page] # None THEN marking[page] ELSE marking[Dash]

----------------------------------------------------------------------------
(* C5: a top-level Page without a marking shows the Dashboard's marking as *)
(* it is when publish runs, a Page with a marking shows its own whatever   *)
(* the Dashboard's is, and without either there is no overlay.             *)

C5_TopLevelMarking ==
    PublishedOk =>
        \A path \in {IndexPath, PagePath("p1")} :
            OverlayText(WrapperAt(path)) =
                IF marking["p1"] # None THEN Shown(marking["p1"]) ELSE Shown(marking[Dash])

\* The page without a marking of its own has been published after the Dashboard's
\* marking was set to "X".
C5_Witness ==
    /\ PublishedOk
    /\ marking["p1"] = None
    /\ marking[Dash] = Some("X")
    /\ OverlayText(WrapperAt(IndexPath)) = Some("X")

----------------------------------------------------------------------------
(* C6: a sub-page without a marking shows the resolved marking of its      *)
(* parent Page, at every depth.                                            *)

\* The marking the claim resolves for a page: its own, else its parent's resolved one.
ParentResolved(page) ==
    LET r1 == Cascaded(marking["p1"], marking[Dash])
        r2 == Cascaded(marking["p2"], r1)
        r3 == Cascaded(marking["p3"], r2)
    IN  CASE page = "p1" -> r1
          [] page = "p2" -> r2
          [] page = "p3" -> r3

----------------------------------------------------------------------------
(* C7: a page's output holds one header overlay and one footer overlay when *)
(* a marking is resolved for it and none otherwise, the distribution only  *)
(* inside the footer, and no overlay inside a nested MiniPage.             *)

\* The nodes directly inside a node.
KidsOf(node) ==
    CASE node.tag = "wrapper" -> node.kids
      [] node.tag \in {"outer-box", "box", "minipage-cell"} -> <<node.kid>>
      [] node.tag = "minipage-row" -> node.cells
      [] OTHER -> <<>>

RECURSIVE NodesIn(_)
RECURSIVE NodesInAll(_)

\* Every node of a rendered tree, the root first.
NodesIn(node) == <<node>> \o NodesInAll(KidsOf(node))

NodesInAll(nodes) ==
    IF nodes = <<>> THEN <<>> ELSE NodesIn(Head(nodes)) \o NodesInAll(Tail(nodes))

\* How many nodes of a sequence have the tag.
CountTag(nodes, tag) == Cardinality({i \in 1..Len(nodes) : nodes[i].tag = tag})

\* How many nodes of a sequence carry a distribution statement.
CountDistribution(nodes) ==
    Cardinality({i \in 1..Len(nodes) :
        "distribution" \in DOMAIN nodes[i] /\ nodes[i].distribution # None})

C7_OverlayPair ==
    PublishedOk =>
        \A page \in PageIds :
            IsWritten(page) =>
                LET wrapper == WrapperAt(PagePath(page))
                    all == NodesIn(wrapper)
                    expected == IF TruthyStr(OwnOrDashboard(page)) THEN 1 ELSE 0
                IN  /\ CountTag(all, "floating-header") = expected
                    /\ CountTag(all, "floating-footer") = expected
                    /\ CountTag(wrapper.kids, "floating-header") = expected
                    /\ CountTag(wrapper.kids, "floating-footer") = expected
                    /\ CountDistribution(all) =
                          IF expected = 1 /\ TruthyStr(distribution) THEN 1 ELSE 0
                    /\ CountDistribution(all) = 1 =>
                          OverlayDistribution(wrapper) = distribution

\* Published: a marked page with a distribution statement and a nested MiniPage, and
\* an unmarked sub-page under a Dashboard whose marking is the empty string.
C7_Witness ==
    /\ PublishedOk
    /\ IsWritten("p2")
    /\ marking["p1"] = Some("Y") /\ distribution = Some("D")
    /\ marking["p2"] = None /\ marking[Dash] = Some("")
    /\ CountTag(NodesIn(WrapperAt(PagePath("p1"))), "minipage-row") > 0
    /\ CountTag(NodesIn(WrapperAt(PagePath("p1"))), "floating-footer") = 1
    /\ CountTag(NodesIn(WrapperAt(PagePath("p2"))), "floating-footer") = 0

----------------------------------------------------------------------------
(* Plots and tables, sound and broken, on the page p1 and on the MiniPage  *)
(* m1 nested in it.                                                        *)

PlotSizes ==
    { [height |-> None, width_px |-> None, align |-> "center"],
      [height |-> Some(300), width_px |-> Some(400), align |-> "left"],
      [height |-> None, width_px |-> Some(400), align |-> "justify"] }

NextPlot ==
    \/ Building /\ \E c \in {"p1", "m1"}, fig \in Figures, size \in PlotSizes :
                        AddPlot(c, fig, None, size.height, size.width_px, size.align)
    \/ Building /\ \E c \in {"p1", "m1"}, df \in Tables : AddTable(c, df, None)
    \/ Building /\ AddMinipage("p1", "m1", None)
    \/ Publish

SpecPlot == Init /\ [][NextPlot]_vars

\* The block is a plot whose figure cannot be serialized.
BrokenPlot(block) == block.kind = "plot" /\ SerializeRaises(block.content.plot)

\* The block is a table whose data cannot be serialized.
BrokenTable(block) == block.kind = "table" /\ ToHtmlRaises(block.content.df)

\* The node is a rendered plot of the block's pixel size in the block's alignment box.
IsPlotOf(node, block) ==
    /\ node.tag = "plot"
    /\ node.height = block.content.height
    /\ node.width_px = block.content.width_px
    /\ node.align = IF block.content.align \in {"left", "right", "center"}
                    THEN block.content.align ELSE "center"

\* In a container's nodes every broken plot is a placeholder carrying the error and
\* every other plot is a rendered plot.
PlotsIsolated(nodes, blocks) ==
    \A i \in 1..Len(blocks) :
        blocks[i].kind = "plot" =>
            IF BrokenPlot(blocks[i])
            THEN nodes[i].tag = "placeholder" /\ nodes[i].error # ""
            ELSE IsPlotOf(nodes[i], blocks[i])

\* In a container's nodes every broken table is a placeholder.
TablesIsolated(nodes, blocks) ==
    \A i \in 1..Len(blocks) :
        BrokenTable(blocks[i]) =>
            nodes[i].tag = "placeholder" /\ nodes[i].text = "Table could not be rendered"

\* The rows of m1 among the nodes of p1.
RowsOfM1(nodes) == {i \in 1..Len(nodes) : KindOf(nodes[i]) = "minipage"}

----------------------------------------------------------------------------
(* C8: a plot that fails to render becomes one placeholder, every other    *)
(* plot of the container and page is rendered, and publish does not abort. *)

C8_PlotIsolation ==
    (last.op = "publish" /\ \A c \in {"p1", "m1"} : \A i \in 1..Len(elements[c]) :
                                ~BrokenTable(elements[c][i])) =>
        /\ last.exc = NoExc
        /\ LET nodes == BlockNodes(WrapperAt(IndexPath))
           IN  /\ PlotsIsolated(nodes, elements["p1"])
               /\ \A i \in RowsOfM1(nodes) :
                      PlotsIsolated(CellNodes(nodes[i]), elements["m1"])

----------------------------------------------------------------------------
(* C9: a table that fails to serialize, in a Page or in a MiniPage, becomes *)
(* a placeholder; the exception never leaves render or publish.            *)

C9_TableIsolation ==
    last.op = "publish" =>
        /\ last.exc = NoExc
        /\ LET nodes == BlockNodes(WrapperAt(IndexPath))
           IN  /\ TablesIsolated(nodes, elements["p1"])
               /\ \A i \in RowsOfM1(nodes) :
                      TablesIsolated(CellNodes(nodes[i]), elements["m1"])

----------------------------------------------------------------------------
(* C10: a plot block renders in a MiniPage as it does in a Page: a valid   *)
(* figure as a plot of the given pixel size in its alignment box.          *)

C10_SamePlotInMiniPage ==
    PublishedOk =>
        LET nodes == BlockNodes(WrapperAt(IndexPath))
            ValidPlots(ns, blocks) ==
                \A i \in 1..Len(blocks) :
                    (blocks[i].kind = "plot" /\ ~BrokenPlot(blocks[i])) =>
                        IsPlotOf(ns[i], blocks[i])
        IN  /\ ValidPlots(nodes, elements["p1"])
            /\ \A i \in RowsOfM1(nodes) : ValidPlots(CellNodes(nodes[i]), elements["m1"])

----------------------------------------------------------------------------
(* C11: a plot block with an explicit height and/or pixel width that       *)
(* renders leaves the figure's dimensions as they were before render, on   *)
(* the vector path and on the raster path; only the markup shows the       *)
(* override.                                                               *)

\* The blocks of p1 that are plots of a figure that serializes.
SoundPlots == {i \in 1..Len(elements["p1"]) :
                  elements["p1"][i].kind = "plot" /\ ~BrokenPlot(elements["p1"][i])}

\* C11: a publish step leaves every figure that serializes with the height and width
\* it had before the step, and the plot nodes it emits carry the specified pixel sizes.
C11_DimensionsRestored ==
    [][last'.op = "publish" =>
          /\ \A fig \in Figures : ~SerializeRaises(fig) => Dims(figs'[fig]) = Dims(figs[fig])
          /\ last'.exc = NoExc =>
                \A i \in SoundPlots :
                    IsPlotOf(BlockNodes(files'[IndexPath].content)[i], elements["p1"][i])
      ]_vars

\* Published: p1 holds a Plotly figure and a Matplotlib figure, both with an explicit
\* height and pixel width other than their own; both have their own dimensions again.
C11_Witness ==
    /\ PublishedOk
    /\ Len(elements["p1"]) = 2
    /\ \A i \in 1..2 : /\ elements["p1"][i].kind = "plot"
                       /\ elements["p1"][i].content.height = Some(300)
                       /\ elements["p1"][i].content.width_px = Some(400)
    /\ elements["p1"][1].content.plot = "fig_plotly"
    /\ elements["p1"][2].content.plot = "fig_mpl"
    /\ \A i \in 1..2 : /\ BlockNodes(WrapperAt(IndexPath))[i].tag = "plot"
                       /\ BlockNodes(WrapperAt(IndexPath))[i].height = Some(300)
    /\ Dims(figs["fig_plotly"]) = [height |-> None, width |-> None]
    /\ Dims(figs["fig_mpl"]) = [height |-> Some(480), width |-> Some(640)]

----------------------------------------------------------------------------
(* C12: when serializing a figure raises after the override was applied,   *)
(* the figure's dimensions are restored all the same.                      *)

\* C12: after publish every figure whose serialization raises has the dimensions the
\* caller gave it.
C12_RestoredOnFailure ==
    last.op = "publish" =>
        \A fig \in Figures : SerializeRaises(fig) => Dims(figs[fig]) = Dims(FigInit[fig])

----------------------------------------------------------------------------
(* Page trees: pages added to the Dashboard and to one another, then       *)
(* published.  Each page has a width of its own, which tells the rendered  *)
(* wrappers apart.                                                         *)

\* The add_subpage calls of a run: (parent, sub-page).
TreeEdges == {<<"p1", "p2">>, <<"p1", "p3">>, <<"p2", "p3">>}

\* Dashboard(title) without pages; Page("p1", page_width=1001), Page("p2", 1002), ...
InitTree ==
    /\ InitBase
    /\ page_width = [c \in Containers \cup {Dash} |->
                        CASE c = Dash -> Some(DefaultWidth)
                          [] c = "p1" -> Some(DefaultWidth + 101)
                          [] c = "p2" -> Some(DefaultWidth + 102)
                          [] c = "p3" -> Some(DefaultWidth + 103)
                          [] OTHER -> None]
    /\ marking = [o \in PageIds \cup {Dash} |-> None]
    /\ distribution = None
    /\ pages = <<>>

NextTree ==
    \/ Building /\ \E page \in PageIds : AddPage(page)
    \/ Building /\ \E e \in TreeEdges : AddSubpage(e[1], e[2])
    \/ Publish

SpecTree == InitTree /\ [][NextTree]_vars

\* The pages of a list.
PagesOf(list) == {list[i] : i \in 1..Len(list)}

\* The sub-pages of a set of pages.
SubPages(S) == UNION {PagesOf(children[p]) : p \in S}

\* The pages below a page, at any depth.
Descendants(p) ==
    LET d1 == SubPages({p})
        d2 == d1 \cup SubPages(d1)
    IN  d2 \cup SubPages(d2)

\* The pages of the Dashboard's tree.
TreePages == PagesOf(pages) \cup UNION {Descendants(p) : p \in PagesOf(pages)}

\* How often a page occurs in a list.
Occurs(page, list) == Cardinality({i \in 1..Len(list) : list[i] = page})

RECURSIVE SumOver(_, _)

SumOver(S, page) ==
    IF S = {}
    THEN 0
    ELSE LET q == CHOOSE x \in S : TRUE
         IN  Occurs(page, children[q]) + SumOver(S \ {q}, page)

\* Every page of the tree is in exactly one list, once: the pages form a tree.
TreeShaped ==
    \A page \in TreePages : Occurs(page, pages) + SumOver(TreePages, page) = 1

\* The position of a path in the emission sequence (0 when it was not emitted).
Position(path) ==
    IF \E i \in 1..Len(log) : log[i] = path
    THEN CHOOSE i \in 1..Len(log) : log[i] = path
    ELSE 0

\* The lists of the tree: the Dashboard's pages and every page's sub-pages.
TreeLists == {pages} \cup {children[p] : p \in TreePages}

----------------------------------------------------------------------------
(* C13: publish emits the page files in depth-first pre-order.             *)

\* C13: after publish of a tree every page's file was emitted once, before the files
\* of its sub-pages; the files of a page's subtree come before the file of the next
\* page of the same list; the index file is emitted last.
C13_DepthFirstPreOrder ==
    (PublishedOk /\ TreeShaped) =>
        /\ Len(log) = Cardinality(TreePages) + 1
        /\ log[Len(log)] = IndexPath
        /\ \A p \in TreePages : Position(PagePath(p)) \in 1..(Len(log) - 1)
        /\ \A p \in TreePages : \A c \in PagesOf(children[p]) :
                Position(PagePath(p)) < Position(PagePath(c))
        /\ \A list \in TreeLists : \A i \in 1..Len(list) : \A j \in 1..Len(list) :
                i < j => \A d \in {list[i]} \cup Descendants(list[i]) :
                            Position(PagePath(d)) < Position(PagePath(list[j]))

\* Published: top-level pages p1 and p3, p1 with the sub-page p2: p1, p2, p3, index.
C13_Witness ==
    /\ PublishedOk
    /\ pages = <<"p1", "p3">>
    /\ children["p1"] = <<"p2">>
    /\ log = <<PagePath("p1"), PagePath("p2"), PagePath("p3"), IndexPath>>

----------------------------------------------------------------------------
(* C14: the files of a published tree.                                     *)

\* C14 as stated: one file per page, the first top-level page at index.html and every
\* other page at pages/<slug>.html.
C14_OneFilePerPage ==
    (PublishedOk /\ TreeShaped) =>
        /\ DOMAIN files = {IndexPath} \cup {PagePath(p) : p \in TreePages \ {pages[1]}}
        /\ Cardinality(DOMAIN files) = Cardinality(TreePages)

\* C14 as amended: every page of the tree, the first top-level page included, has its
\* file at pages/<slug>.html, and index.html is one more file, the entry document,
\* which renders the first top-level page.
C14_PageFilesAndEntry ==
    (PublishedOk /\ TreeShaped) =>
        /\ DOMAIN files = {IndexPath} \cup {PagePath(p) : p \in TreePages}
        /\ Cardinality(DOMAIN files) = Cardinality(TreePages) + 1
        /\ \A p \in TreePages : /\ files[PagePath(p)].title = Title(p)
                                /\ files[PagePath(p)].content.tag = "wrapper"
                                /\ files[PagePath(p)].content.width = page_width[p]
        /\ files[IndexPath].title = Title(Dash)
        /\ files[IndexPath].content = files[PagePath(pages[1])].content
        /\ files[IndexPath].content.width = page_width[pages[1]]

\* Published: two top-level pages and a sub-page: four files, the index showing p2.
C14_Witness ==
    /\ PublishedOk
    /\ pages = <<"p2", "p1">>
    /\ children["p2"] = <<"p3">>
    /\ TreeShaped
    /\ Cardinality(DOMAIN files) = 4
    /\ files[IndexPath].content.width = page_width["p2"]

----------------------------------------------------------------------------
(* C15: the navigation panel of every file marks the page of the file      *)
(* active and opens the groups on the way to it.                           *)

\* The link of a sidebar item.
LinkOf(item) == IF item.tag = "sidebar-group" THEN item.link ELSE item

RECURSIVE AllItems(_)

\* The items of a sidebar, at any depth.
AllItems(items) ==
    IF items = <<>>
    THEN {}
    ELSE LET item == Head(items)
         IN  {item} \cup (IF item.tag = "sidebar-group" THEN AllItems(item.kids) ELSE {})
                    \cup AllItems(Tail(items))

\* The page a file shows.
PageOfFile(path) ==
    IF path = IndexPath THEN pages[1] ELSE CHOOSE p \in PageIds : PagePath(p) = path

IsActive(item) == "active" \in LinkOf(item).classes

IsOpen(item) == item.tag = "sidebar-group" /\ "open" \in item.classes

\* C15: in every file of a published tree, the item of a page is active iff it is
\* the page of the file, a page with sub-pages has an open group iff it is the page
\* of the file or an ancestor of it, and exactly one item is active.
C15_ActiveAndExpanded ==
    (PublishedOk /\ TreeShaped) =>
        \A path \in DOMAIN files :
            LET P == PageOfFile(path)
                items == AllItems(files[path].sidebar)
            IN  /\ \A Q \in TreePages :
                       \E item \in items :
                           /\ LinkOf(item).title = Title(Q)
                           /\ IsActive(item) <=> Q = P
                           /\ children[Q] # <<>> =>
                                 (IsOpen(item) <=> (Q = P \/ P \in Descendants(Q)))
                /\ Cardinality({item \in items : IsActive(item)}) = 1

----------------------------------------------------------------------------
(* C16: publishing a Dashboard without pages fails with EmptyDashboard.    *)

\* C16: a publish call on a Dashboard without pages raises EmptyDashboard.
C16_EmptyDashboard ==
    (last.op = "publish" /\ pages = <<>>) => last.exc = "EmptyDashboard"

----------------------------------------------------------------------------
(* C17: publish copies the source of every download block into the         *)
(* downloads area under a new name and the block's link points at the copy. *)

\* The file a link names, seen from the document that holds it: index.html lies in
\* the output directory, a page in its sub-directory pages.
Resolve(doc_path, href) ==
    IF doc_path = IndexPath THEN <<href>> ELSE <<"pages", href>>

\* The files of the output's downloads area.
DownloadsArea == {q \in DOMAIN files : q[1] = "downloads"}

\* The download nodes of a document.
DownloadNodes(doc_path) ==
    LET nodes == NodesIn(files[doc_path].content)
    IN  {nodes[i] : i \in {j \in 1..Len(nodes) : nodes[j].tag = "download"}}

\* C17: after publish, every link of a download block whose source exists resolves to
\* a file of the downloads area.
C17_DownloadCopied ==
    PublishedOk =>
        \A doc_path \in DOMAIN files : \A node \in DownloadNodes(doc_path) :
            IsFile(node.href) => Resolve(doc_path, node.href) \in DownloadsArea

----------------------------------------------------------------------------
(* Publishing twice: plots of one Plotly and one Matplotlib figure, at no  *)
(* height, at a small one and at one beyond what the raster path draws.    *)

PlotHeights == {None, Some(300), Some(MaxImagePixels + 1)}

NextTwice ==
    \/ Building /\ \E fig \in {"fig_plotly", "fig_mpl"}, height \in PlotHeights :
                        AddPlot("p1", fig, None, height, None, "center")
    \/ Building /\ \E c \in {"p1", "m1"} : AddText(c, "t", None)
    \/ Building /\ AddMinipage("p1", "m1", None)
    \/ Publish

SpecTwice == Init /\ [][NextTwice]_vars

----------------------------------------------------------------------------
(* C18: publish changes nothing of the Dashboard, and a second publish of  *)
(* the same Dashboard writes the same documents.                           *)

\* C18: a publish step leaves the page list and every container's blocks, sub-pages,
\* width and marking as they were, and a publish step that follows a publish step
\* writes every document as the first wrote it.
C18_PublishPure ==
    [][last'.op = "publish" =>
          /\ pages' = pages /\ elements' = elements /\ children' = children
          /\ page_width' = page_width /\ marking' = marking
          /\ last.op = "publish" => files' = files
      ]_vars

----------------------------------------------------------------------------
(* C19: the containment relation built by add_minipage, add_subpage and    *)
(* add_page is a tree without cycles.                                      *)

\* The add_subpage and add_minipage calls of a run: (receiver, argument).
CycleEdges == {<<"p1", "p1">>, <<"p1", "p2">>, <<"p2", "p1">>}

MiniEdges == {<<"p1", "m1">>, <<"m1", "m1">>, <<"m1", "m2">>, <<"m2", "m1">>}

NextCycle ==
    \/ Building /\ AddPage("p1")
    \/ Building /\ \E e \in CycleEdges : AddSubpage(e[1], e[2])
    \/ Building /\ \E e \in MiniEdges : AddMinipage(e[1], e[2], None)
    \/ Publish

SpecCycle == InitTree /\ [][NextCycle]_vars

\* The containers a container holds: its sub-pages and the MiniPages of its blocks.
Holds(c) ==
    (IF c \in PageIds THEN PagesOf(children[c]) ELSE {})
    \cup {elements[c][i].content.minipage :
            i \in {j \in 1..Len(elements[c]) : elements[c][j].kind = "minipage"}}

HeldBy(S) == UNION {Holds(c) : c \in S}

\* The containers reachable from a container through one link or more.
Below(c) ==
    LET r1 == Holds(c)
        r2 == r1 \cup HeldBy(r1)
        r3 == r2 \cup HeldBy(r2)
        r4 == r3 \cup HeldBy(r3)
    IN  r4 \cup HeldBy(r4)

\* C19: no container is reachable from itself, and publish never exhausts the
\* recursion depth.
C19_NoCycle ==
    /\ \A c \in Containers : c \notin Below(c)
    /\ last.op = "publish" => last.exc # "RecursionError"

----------------------------------------------------------------------------
(* Width fractions: blocks of every kind, with and without a fraction, on  *)
(* the page p1 or on the MiniPage m1 that p1 holds.                        *)

\* No fraction, the fraction 0, the fraction 1.
Fractions == {None, Some(0), Some(1)}

HoldsM1 == [kind |-> "minipage", content |-> [minipage |-> "m1"], width |-> None]

\* The container a run appends to: m1 once p1 holds it, else p1.
UnderTest(c) ==
    /\ Building
    /\ IF elements["p1"] # <<>> /\ elements["p1"][1] = HoldsM1 THEN c = "m1" ELSE c = "p1"

NextFraction ==
    \/ \E c \in {"p1", "m1"}, w \in Fractions : UnderTest(c) /\ AddHeader(c, "H", 1, w)
    \/ \E c \in {"p1", "m1"}, w \in Fractions : UnderTest(c) /\ AddText(c, "t", w)
    \/ \E c \in {"p1", "m1"}, w \in Fractions :
            UnderTest(c) /\ AddPlot(c, "fig_plotly", w, None, None, "center")
    \/ \E c \in {"p1", "m1"}, w \in Fractions : UnderTest(c) /\ AddTable(c, "df", w)
    \/ \E c \in {"p1", "m1"}, w \in Fractions : UnderTest(c) /\ AddDownload(c, "a.csv", None, w)
    \/ \E c \in {"p1", "m1"}, w \in Fractions : UnderTest(c) /\ AddSyntax(c, "x = 1", "python", w)
    \/ \E c \in {"p1", "m1"}, w \in Fractions : UnderTest(c) /\ AddMinipage(c, "m2", w)
    \/ Building /\ elements["p1"] = <<>> /\ AddMinipage("p1", "m1", None)
    \/ Publish

SpecFraction == Init /\ [][NextFraction]_vars

----------------------------------------------------------------------------
(* C20: a block is wrapped in a centered box scaled to its width fraction  *)
(* iff it carries one, whatever its kind, in a Page and in a MiniPage.     *)

\* The node is the block's node inside a centered box of the block's fraction when
\* the block carries a fraction (0 included), and the block's bare node otherwise.
BoxedIffFraction(node, block) ==
    IF block.width # None
    THEN /\ node.tag = "outer-box" /\ node.style = "flex-center"
         /\ node.kid.tag = "box" /\ node.kid.width = block.width[1]
         /\ KindOf(node.kid.kid) = block.kind
    ELSE /\ node.tag \notin {"outer-box", "box"}
         /\ KindOf(node) = block.kind

\* C20: in the published page every block of p1, and every block of m1 in each row
\* of m1, is boxed iff it carries a width fraction.
C20_WrappedIffFraction ==
    PublishedOk =>
        LET nodes == BlockNodes(WrapperAt(IndexPath))
        IN  \A i \in 1..Len(elements["p1"]) :
                /\ BoxedIffFraction(nodes[i], elements["p1"][i])
                /\ elements["p1"][i] = HoldsM1 =>
                      \A j \in 1..Len(elements["m1"]) :
                          BoxedIffFraction(nodes[i].cells[j].kid, elements["m1"][j])

\* Published: m1 inside p1 holds a text with the fraction 0, boxed, and a header
\* without a fraction, bare.
C20_Witness ==
    /\ PublishedOk
    /\ elements["p1"] = <<HoldsM1>>
    /\ Len(elements["m1"]) = 2
    /\ elements["m1"][1].kind = "text" /\ elements["m1"][1].width = Some(0)
    /\ elements["m1"][2].kind = "header" /\ elements["m1"][2].width = None
    /\ LET row == BlockNodes(WrapperAt(IndexPath))[1]
       IN  /\ row.cells[1].kid.tag = "outer-box" /\ row.cells[1].kid.kid.width = 0
           /\ row.cells[2].kid.tag = "h1"

----------------------------------------------------------------------------
(* Nesting: the MiniPage m1 in the page p1, the MiniPage m2 in m1 and in   *)
(* p1, texts and headers in all three, under a marked Dashboard.           *)

\* The add_minipage calls of a run: (receiver, argument).
NestEdges == {<<"p1", "m1">>, <<"m1", "m2">>, <<"p1", "m2">>}

\* Dashboard(marking="X") with the page p1.
InitNest ==
    /\ InitBase
    /\ page_width = [c \in Containers \cup {Dash} |->
                        IF c = Dash THEN Some(DefaultWidth) ELSE None]
    /\ marking = [o \in PageIds \cup {Dash} |-> IF o = Dash THEN Some("X") ELSE None]
    /\ distribution = None
    /\ pages = <<"p1">>

NextNest ==
    \/ Building /\ \E e \in NestEdges : AddMinipage(e[1], e[2], None)
    \/ Building /\ \E c \in {"p1", "m1", "m2"} : AddText(c, "t", None)
    \/ Building /\ \E c \in {"p1", "m1", "m2"} : AddHeader(c, "H", 1, None)
    \/ Publish

SpecNest == InitNest /\ [][NextNest]_vars

\* The MiniPage of a minipage block.
MiniOf(block) == block.content.minipage

RECURSIVE IsRowOf(_, _)

\* The node is one horizontal row with exactly one cell per block of m, in block
\* order, and the cell of a nested MiniPage holds such a row again.
IsRowOf(node, m) ==
    /\ node.tag = "minipage-row"
    /\ Len(node.cells) = Len(elements[m])
    /\ \A j \in 1..Len(elements[m]) :
          /\ node.cells[j].tag = "minipage-cell"
          /\ KindOf(node.cells[j].kid) = elements[m][j].kind
          /\ elements[m][j].kind = "minipage" =>
                IsRowOf(node.cells[j].kid, MiniOf(elements[m][j]))

----------------------------------------------------------------------------
(* C21: a Page is one wrapper with one child per block after the overlays, *)
(* a MiniPage at any depth one row with one cell per block.                *)

\* C21: the published page is one wrapper whose children are the two overlays and
\* then one node per block of p1 in block order, and every MiniPage, directly in
\* the page or nested in another MiniPage, is one row of one cell per block.
C21_LayoutAxis ==
    PublishedOk =>
        LET wrapper == WrapperAt(IndexPath)
            n == Len(elements["p1"])
        IN  /\ wrapper.tag = "wrapper"
            /\ Len(wrapper.kids) = 2 + n
            /\ wrapper.kids[1].tag = "floating-header"
            /\ wrapper.kids[2].tag = "floating-footer"
            /\ \A i \in 1..n :
                  /\ KindOf(wrapper.kids[2 + i]) = elements["p1"][i].kind
                  /\ elements["p1"][i].kind = "minipage" =>
                        IsRowOf(wrapper.kids[2 + i], MiniOf(elements["p1"][i]))

\* Published: p1 holds a header and m1, m1 holds a text and m2, m2 holds a header and
\* a text: the wrapper has four children, the row of m1 two cells, the row of m2 in
\* the second cell of m1 two cells.
C21_Witness ==
    /\ PublishedOk
    /\ KindsOfBlocks(elements["p1"]) = <<"header", "minipage">>
    /\ MiniOf(elements["p1"][2]) = "m1"
    /\ KindsOfBlocks(elements["m1"]) = <<"text", "minipage">>
    /\ KindsOfBlocks(elements["m2"]) = <<"header", "text">>
    /\ Len(WrapperAt(IndexPath).kids) = 4
    /\ Len(WrapperAt(IndexPath).kids[4].cells) = 2
    /\ Len(WrapperAt(IndexPath).kids[4].cells[2].kid.cells) = 2

----------------------------------------------------------------------------
(* C24: a MiniPage is held by reference: its rows show the blocks it has   *)
(* at publish, wherever it was added.                                      *)

\* The cell shows the block: its kind and, for a text or a header, its text.
ShowsBlock(cell, block) ==
    /\ KindOf(cell.kid) = block.kind
    /\ block.kind \in {"text", "header"} => cell.kid.text = block.content.text

\* C24: whatever the order of the add_minipage calls and of the appends to the
\* MiniPages, in the published page the row at the position of every minipage block,
\* of p1 and of the MiniPage p1 holds, shows the blocks its MiniPage has at publish;
\* a MiniPage added to p1 and to another MiniPage has the same cells in both rows.
C24_HeldByReference ==
    PublishedOk =>
        LET nodes == BlockNodes(WrapperAt(IndexPath))
            Shows(row, m) ==
                /\ row.tag = "minipage-row"
                /\ Len(row.cells) = Len(elements[m])
                /\ \A j \in 1..Len(elements[m]) : ShowsBlock(row.cells[j], elements[m][j])
        IN  \A i \in 1..Len(elements["p1"]) :
                elements["p1"][i].kind = "minipage" =>
                    /\ Shows(nodes[i], MiniOf(elements["p1"][i]))
                    /\ \A j \in 1..Len(elements[MiniOf(elements["p1"][i])]) :
                          LET inner == elements[MiniOf(elements["p1"][i])][j]
                          IN  inner.kind = "minipage" =>
                                /\ Shows(nodes[i].cells[j].kid, MiniOf(inner))
                                /\ \A k \in 1..Len(elements["p1"]) :
                                      /\ elements["p1"][k].kind = "minipage"
                                      /\ MiniOf(elements["p1"][k]) = MiniOf(inner)
                                      => nodes[k].cells = nodes[i].cells[j].kid.cells

\* Published: p1 holds m2 and m1, m1 holds m2, m2 holds a text and a header: both
\* rows of m2 show the two blocks.
C24_Witness ==
    /\ PublishedOk
    /\ KindsOfBlocks(elements["p1"]) = <<"minipage", "minipage">>
    /\ MiniOf(elements["p1"][1]) = "m2" /\ MiniOf(elements["p1"][2]) = "m1"
    /\ KindsOfBlocks(elements["m1"]) = <<"minipage">>
    /\ KindsOfBlocks(elements["m2"]) = <<"text", "header">>
    /\ Len(BlockNodes(WrapperAt(IndexPath))[1].cells) = 2
    /\ Len(BlockNodes(WrapperAt(IndexPath))[2].cells[1].kid.cells) = 2

----------------------------------------------------------------------------
(* The PDF export as the tutorial calls it: dashboard.publish_pdf(...).     *)

PdfPath == <<"dashboard_report.pdf">>

\* dashboard.publish_pdf(output_path=...): class Dashboard defines __init__,
\* add_page, _render_sidebar and publish and nothing else, so the attribute lookup
\* raises AttributeError; nothing is written.
PublishPdf ==
    /\ last' = Call("publish_pdf", Dash, [output_path |-> PdfPath], "AttributeError")
    /\ UNCHANGED <<elements, tree, fs, files, figs, log, beside>>

\* Headers of every valid level on the page p1, then the HTML and the PDF export.
NextPdf ==
    \/ Building /\ \E level \in 1..4 : AddHeader("p1", "H", level, None)
    \/ Building /\ AddText("p1", "t", None)
    \/ Building /\ \E page \in {"p2", "p3"} : AddPage(page)
    \/ Publish
    \/ PublishPdf

SpecPdf == Init /\ [][NextPdf]_vars

\* The levels of the header blocks of a block sequence, in order.
RECURSIVE HeaderLevelsOf(_)

HeaderLevelsOf(blocks) ==
    IF blocks = <<>>
    THEN <<>>
    ELSE (IF Head(blocks).kind = "header" THEN <<Head(blocks).content.level>> ELSE <<>>)
         \o HeaderLevelsOf(Tail(blocks))

----------------------------------------------------------------------------
(* C22: the PDF outline has one entry per emitted heading, in order, and   *)
(* never steps more than one level deeper.                                 *)

\* C22: after publish_pdf the document at the output path has an outline with an
\* entry for every header block of the first page, and no entry of the outline is
\* more than one level below the entry before it.
C22_OutlineContiguous ==
    last.op = "publish_pdf" =>
        /\ last.exc = NoExc
        /\ PdfPath \in DOMAIN files
        /\ LET outline == files[PdfPath].outline
               levels == HeaderLevelsOf(elements["p1"])
           IN  /\ Len(outline) >= Len(levels)
               /\ \A i \in 2..Len(outline) : outline[i].level <= outline[i - 1].level + 1

----------------------------------------------------------------------------
(* Pages with colliding slugs: Page("a", ...) or Page("b", ...) for each of *)
(* the three pages, in every combination.                                  *)

Slugs == {"a", "b"}

\* Dashboard(title) without pages; every page constructed with one of two slugs.
InitSlug ==
    /\ InitBeside
    /\ elements = [c \in Containers |-> <<>>]
    /\ slug \in [PageIds -> Slugs]
    /\ children = [p \in PageIds |-> <<>>]
    /\ fs = [path \in Paths |-> CASE path = "a.csv" -> "file"
                                  [] path = "reports" -> "dir"
                                  [] OTHER -> "absent"]
    /\ files = NoFiles
    /\ figs = FigInit
    /\ log = <<>>
    /\ last = Call("init", Dash, [title |-> Title(Dash)], NoExc)
    /\ page_width = [c \in Containers \cup {Dash} |->
                        IF c = Dash THEN Some(DefaultWidth) ELSE None]
    /\ marking = [o \in PageIds \cup {Dash} |-> None]
    /\ distribution = None
    /\ pages = <<>>

SpecSlug == InitSlug /\ [][NextTree]_vars

RECURSIVE PreOrder(_, _)

\* The pages below a page list, each before its sub-pages, a page's sub-pages
\* before the page that follows it in the list.
PreOrder(list, depth) ==
    IF list = <<>> \/ depth = 0
    THEN <<>>
    ELSE <<Head(list)>> \o PreOrder(children[Head(list)], depth - 1)
                        \o PreOrder(Tail(list), depth)

\* The last page with the slug in depth-first order.
LastWithSlug(s) ==
    LET order == PreOrder(pages, Cardinality(PageIds))
        at == {i \in 1..Len(order) : slug[order[i]] = s}
    IN  order[CHOOSE i \in at : \A j \in at : j <= i]

----------------------------------------------------------------------------
(* C23: slugs are not validated; of two pages with one slug the page       *)
(* written last owns pages/<slug>.html.                                    *)

\* C23: publish of a Dashboard with at least one page ends without an error whatever
\* slugs its pages share, and the file of every slug holds the document of the last
\* page with that slug in depth-first order.
C23_LastSlugWins ==
    last.op = "publish" /\ pages # <<>> =>
        /\ last.exc = NoExc
        /\ \A page \in TreePages :
              /\ PagePath(page) \in DOMAIN files
              /\ files[PagePath(page)].title = Title(LastWithSlug(slug[page]))

\* Published: the top-level pages p1 and p2 share the slug "a": one file pages/a,
\* titled p2.
C23_Witness ==
    /\ PublishedOk
    /\ pages = <<"p1", "p2">>
    /\ slug["p1"] = "a" /\ slug["p2"] = "a"
    /\ DOMAIN files = {IndexPath, <<"pages", "a">>}
    /\ files[<<"pages", "a">>].title = "p2"

----------------------------------------------------------------------------
(* split_paragraphs_preserving_math.  A text is a sequence of characters:  *)
(* a letter, the dollar sign and the newline.  The placeholder             *)
(* __MATH_BLOCK_i__ is one token of its own: no text here contains its     *)
(* characters.                                                             *)

\* The longest text.
MaxLen == 7

Letter == "a"

Dollar == "$"

Newline == "n"

Chars == {Letter, Dollar, Newline}

\* f"__MATH_BLOCK_{i}__" for i = 0, 1, 2, ...
MathBlockToken == <<"M0", "M1", "M2", "M3", "M4">>

MathBlockName(i) == MathBlockToken[i + 1]

Texts == UNION {[1..n -> Chars] : n \in 0..MaxLen}

\* The position of the first dollar sign at or after position i, or 0.
NextDollar(s, i) ==
    IF \E k \in i..Len(s) : s[k] = Dollar
    THEN CHOOSE k \in i..Len(s) : s[k] = Dollar /\ \A j \in i..(k - 1) : s[j] # Dollar
    ELSE 0

\* Where a match of \$\$([^$]+)\$\$ that starts at position i ends, or 0.
DisplayEnd(s, i) ==
    IF i + 1 <= Len(s) /\ s[i] = Dollar /\ s[i + 1] = Dollar
    THEN LET k == NextDollar(s, i + 2)
         IN  IF k > i + 2 /\ k + 1 <= Len(s) /\ s[k + 1] = Dollar THEN k + 1 ELSE 0
    ELSE 0

\* Where a match of \$([^$]+)\$ that starts at position i ends, or 0.
InlineEnd(s, i) ==
    IF i <= Len(s) /\ s[i] = Dollar
    THEN LET k == NextDollar(s, i + 1)
         IN  IF k > i + 1 THEN k ELSE 0
    ELSE 0

MatchEnd(double, s, i) == IF double THEN DisplayEnd(s, i) ELSE InlineEnd(s, i)

RECURSIVE Sub(_, _, _, _, _)

\* re.sub(pattern, replace_math, text) from position i on: the leftmost match is
\* replaced by the placeholder of a new math block and the scan goes on behind it.
Sub(double, s, i, out, math_blocks) ==
    IF i > Len(s)
    THEN [text |-> out, math_blocks |-> math_blocks]
    ELSE LET Step(end) ==
                 IF end # 0
                 THEN Sub(double, s, end + 1,
                          Append(out, MathBlockName(Len(math_blocks))),
                          Append(math_blocks, SubSeq(s, i, end)))
                 ELSE Sub(double, s, i + 1, Append(out, s[i]), math_blocks)
         IN  Step(MatchEnd(double, s, i))

RECURSIVE SplitBlank(_, _)

\* text.split('\n\n'): para is the paragraph read so far.
SplitBlank(s, para) ==
    IF s = <<>>
    THEN <<para>>
    ELSE IF Len(s) >= 2 /\ s[1] = Newline /\ s[2] = Newline
    THEN <<para>> \o SplitBlank(SubSeq(s, 3, Len(s)), <<>>)
    ELSE SplitBlank(Tail(s), Append(para, Head(s)))

RECURSIVE Replace(_, _, _)

\* para.replace(token, block)
Replace(para, token, block) ==
    IF para = <<>>
    THEN <<>>
    ELSE (IF Head(para) = token THEN block ELSE <<Head(para)>>)
         \o Replace(Tail(para), token, block)

RECURSIVE Restored(_, _, _)

\* The inner loop: for i, block in enumerate(math_blocks), from block i on.
Restored(para, math_blocks, i) ==
    IF i >= Len(math_blocks)
    THEN para
    ELSE Restored(Replace(para, MathBlockName(i), math_blocks[i + 1]), math_blocks, i + 1)

RECURSIVE Strip(_)

\* para.strip()
Strip(para) ==
    IF para # <<>> /\ Head(para) = Newline
    THEN Strip(Tail(para))
    ELSE IF para # <<>> /\ para[Len(para)] = Newline
    THEN Strip(SubSeq(para, 1, Len(para) - 1))
    ELSE para

\* [para for para in restored_paragraphs if para]
NonEmpty(paras) == SelectSeq(paras, LAMBDA para : para # <<>>)

split_paragraphs_preserving_math(s) ==
    LET Inline(d) == Sub(FALSE, d.text, 1, <<>>, d.math_blocks)
        Split(r) ==
            LET parts == SplitBlank(r.text, <<>>)
            IN  NonEmpty([k \in 1..Len(parts) |-> Strip(Restored(parts[k], r.math_blocks, 0))])
    IN  Split(Inline(Sub(TRUE, s, 1, <<>>, <<>>)))

\* The call, on the text of the run.
SplitCall ==
    /\ last.op = "init"
    /\ paragraphs' = split_paragraphs_preserving_math(input_text)
    /\ last' = Call("split_paragraphs_preserving_math", Dash, [text |-> input_text], NoExc)
    /\ UNCHANGED <<elements, tree, fs, files, figs, log, input_text, dashboards, sites,
                   simple>>

\* Any text up to the longest.
InitSplit ==
    /\ InitPlain
    /\ input_text \in Texts
    /\ paragraphs = <<>>
    /\ dashboards = <<>>
    /\ sites = NoFiles
    /\ simple_pages = <<>>
    /\ display = <<>>
    /\ active = {}

NextSplit == SplitCall

SpecSplit == InitSplit /\ [][NextSplit]_vars

\* The sequence part occurs in the sequence whole, as one run.
Within(part, whole) ==
    \E k \in 0..(Len(whole) - Len(part)) : SubSeq(whole, k + 1, k + Len(part)) = part

\* The $$...$$ spans of a text: two dollar signs, characters other than the dollar
\* sign, two dollar signs.
DisplaySpans(s) ==
    {SubSeq(s, i, j) : <<i, j>> \in
        {ij \in (1..Len(s)) \X (1..Len(s)) :
            /\ ij[2] >= ij[1] + 4
            /\ s[ij[1]] = Dollar /\ s[ij[1] + 1] = Dollar
            /\ s[ij[2] - 1] = Dollar /\ s[ij[2]] = Dollar
            /\ \A k \in (ij[1] + 2)..(ij[2] - 2) : s[k] # Dollar}}

----------------------------------------------------------------------------
(* C25: math spans come back verbatim and no placeholder is left behind.   *)

\* C25: in what split_paragraphs_preserving_math returns no paragraph holds a
\* placeholder token, and every $$...$$ span of the text is in some paragraph whole.
C25_MathPreserved ==
    last.op = "split_paragraphs_preserving_math" =>
        /\ \A k \in 1..Len(paragraphs) : \A i \in 1..Len(paragraphs[k]) :
              \A t \in 1..Len(MathBlockToken) : paragraphs[k][i] # MathBlockToken[t]
        /\ \A span \in DisplaySpans(input_text) :
              \E k \in 1..Len(paragraphs) : Within(span, paragraphs[k])

----------------------------------------------------------------------------
(* The weekly planner: blocks of kind "raw_html" appended to a page's      *)
(* block sequence directly.                                                *)

\* page.elements.append(("raw_html", calendar_html, None))
AppendRawHtml(c) ==
    /\ Len(elements[c]) < MaxElems
    /\ elements' = Appended(c, Block("raw_html", [html |-> "<div>"], None))
    /\ last' = Call("append", c, [kind |-> "raw_html"], NoExc)
    /\ UNCHANGED <<tree, fs, files, figs, log, beside>>

NextRaw ==
    \/ Building /\ \E c \in {"p1", "m1"} : AppendRawHtml(c)
    \/ Building /\ \E c \in {"p1", "m1"} : AddHeader(c, "H", 1, None)
    \/ Building /\ \E c \in {"p1", "m1"} : AddText(c, "t", None)
    \/ Building /\ \E c \in {"p1", "m1"} : AddSyntax(c, "x = 1", "python", None)
    \/ Building /\ AddMinipage("p1", "m1", None)
    \/ Publish

SpecRaw == Init /\ [][NextRaw]_vars

\* The node is the rendering of the block: of its kind, and for raw HTML the
\* markup itself.
Carries(node, block) ==
    IF block.kind = "raw_html"
    THEN node.tag = "raw_html" /\ node.html = block.content.html
    ELSE node # NoElem /\ KindOf(node) = block.kind

----------------------------------------------------------------------------
(* C26: every block of a page contributes one node carrying its content.   *)

\* C26: publish ends without an error and the published page has, after its
\* overlays, one node for every block of p1, in order, each carrying its block.
C26_EveryBlockRendered ==
    last.op = "publish" =>
        /\ last.exc = NoExc
        /\ Len(BlockNodes(WrapperAt(IndexPath))) = Len(elements["p1"])
        /\ \A i \in 1..Len(elements["p1"]) :
              Carries(BlockNodes(WrapperAt(IndexPath))[i], elements["p1"][i])

----------------------------------------------------------------------------
(* C27: rendering leaves every attribute of the caller's figures as it     *)
(* was, the layout font family included.                                   *)

\* C27: after publish every figure has the height, the width and the font family
\* that the caller gave it.
C27_FiguresUntouched ==
    last.op = "publish" =>
        \A fig \in Figures :
            /\ figs[fig].font_family = FigInit[fig].font_family
            /\ ~SerializeRaises(fig) => figs[fig] = FigInit[fig]

----------------------------------------------------------------------------
(* Directory: Dashboards added under a slug, given or derived from the     *)
(* title, and published each into os.path.join(output_dir, slug).  Strings *)
(* are sequences of characters; a directory is its path below output_dir.  *)

MaxDashboards == 2

\* The titles of the Dashboards that are added.
DashTitles ==
    {<<"A">>, <<"a">>, <<"A", " ", "b">>, <<"A", "!">>, <<"!", "!">>, <<" ", "-", "b">>}

\* The slugs passed explicitly.
GivenSlugs == {<<"a">>, <<"b", "-", "2">>}

\* str.lower of one character.
Lower(c) == CASE c = "A" -> "a" [] OTHER -> c

\* str.isalnum of one character.
IsAlnum(c) == c \in {"A", "a", "b", "2"}

\* .lower().replace(" ", "-")
LowerHyphenated(s) == [i \in 1..Len(s) |-> IF s[i] = " " THEN "-" ELSE Lower(s[i])]

\* "".join(c for c in slug if c.isalnum() or c == "-")
IsSlugChar(c) == IsAlnum(c) \/ c = "-"

RECURSIVE CollapseHyphens(_)
\* re.sub(r'-+', '-', slug)
CollapseHyphens(s) ==
    IF Len(s) < 2 THEN s
    ELSE IF s[1] = "-" /\ s[2] = "-" THEN CollapseHyphens(Tail(s))
    ELSE <<s[1]>> \o CollapseHyphens(Tail(s))

RECURSIVE StripHyphens(_)
\* slug.strip("-")
StripHyphens(s) ==
    IF s = <<>> THEN s
    ELSE IF s[1] = "-" THEN StripHyphens(Tail(s))
    ELSE IF s[Len(s)] = "-" THEN StripHyphens(SubSeq(s, 1, Len(s) - 1))
    ELSE s

\* add_dashboard, slug is None: the slug derived from the title.
DerivedSlug(title) ==
    StripHyphens(CollapseHyphens(SelectSeq(LowerHyphenated(title), IsSlugChar)))

\* directory.add_dashboard(dashboard, given) for a Dashboard(title) that holds a
\* page: nothing is validated, and no slug is compared with those already held.
AddDashboard(title, given) ==
    /\ Len(dashboards) < MaxDashboards
    /\ sites = NoFiles
    /\ dashboards' = Append(dashboards,
                            [slug |-> IF given = None THEN DerivedSlug(title) ELSE given[1],
                             title |-> title])
    /\ last' = Call("add_dashboard", "directory", [title |-> title, slug |-> given], NoExc)
    /\ UNCHANGED <<elements, tree, fs, files, figs, log, input_text, paragraphs, sites,
                   simple>>

\* os.path.join(output_dir, slug), as a path below output_dir: an empty slug names
\* output_dir itself.
DashboardDir(s) == s

\* output_dir
OutputRoot == <<>>

\* The landing page, as the writer of an index.html; a Dashboard is its position.
Landing == 0

\* dir/index.html is written by owner.
IndexWritten(st, dir, owner) ==
    [d \in DOMAIN st \cup {dir} |-> IF d = dir THEN owner ELSE st[d]]

RECURSIVE PublishDashboards(_, _)
\* The loop of Directory.publish: the i-th Dashboard publishes into its directory and
\* writes index.html there; the back link is then patched into that file.
PublishDashboards(i, st) ==
    IF i > Len(dashboards) THEN st
    ELSE PublishDashboards(i + 1, IndexWritten(st, DashboardDir(dashboards[i].slug), i))

\* Directory.publish(output_dir): the Dashboards in order, the landing page last.
DirectoryPublish ==
    /\ sites = NoFiles
    /\ sites' = IndexWritten(PublishDashboards(1, NoFiles), OutputRoot, Landing)
    /\ last' = Call("directory_publish", "directory", [output_dir |-> "output"], NoExc)
    /\ UNCHANGED <<elements, tree, fs, files, figs, log, input_text, paragraphs,
                   dashboards, simple>>

NextDirectory ==
    \/ \E title \in DashTitles : AddDashboard(title, None)
    \/ \E title \in DashTitles, given \in GivenSlugs : AddDashboard(title, Some(given))
    \/ DirectoryPublish

SpecDirectory == Init /\ [][NextDirectory]_vars

----------------------------------------------------------------------------
(* C28: each Dashboard of a Directory is published into a subfolder of its *)
(* own.                                                                    *)

\* C28: after Directory.publish every Dashboard's directory is a proper subdirectory
\* of the output root and no other Dashboard's, its index.html is the one that
\* Dashboard wrote, and the root's index.html is the landing page.
C28_OwnSubfolder ==
    last.op = "directory_publish" =>
        /\ \A i \in 1..Len(dashboards) :
              /\ DashboardDir(dashboards[i].slug) # OutputRoot
              /\ \A j \in 1..Len(dashboards) :
                    i # j => DashboardDir(dashboards[i].slug) # DashboardDir(dashboards[j].slug)
              /\ sites[DashboardDir(dashboards[i].slug)] = i
        /\ sites[OutputRoot] = Landing

----------------------------------------------------------------------------
(* C29: every link of the navigation panel of every emitted file resolves  *)
(* to a file that the publish wrote.                                       *)

\* The path segments of a link of the navigation panel.
Segments(href) ==
    LET name == IF "file" \in DOMAIN href THEN href.file ELSE href.slug
    IN  CASE href.prefix = "../" -> <<"..", name>>
          [] href.prefix = "pages/" -> <<"pages", name>>
          [] OTHER -> <<name>>

RECURSIVE Walk(_, _)
\* The path reached from a directory along the segments of a relative link.
Walk(dir, segs) ==
    IF segs = <<>> THEN dir
    ELSE IF Head(segs) = ".."
    THEN Walk(IF dir = <<>> THEN <<"..">> ELSE SubSeq(dir, 1, Len(dir) - 1), Tail(segs))
    ELSE Walk(Append(dir, Head(segs)), Tail(segs))

\* The file a link of the navigation panel names, seen from the file that holds it.
ResolveLink(doc_path, href) ==
    Walk(SubSeq(doc_path, 1, Len(doc_path) - 1), Segments(href))

\* The links of the navigation panel of a document.
NavLinks(doc) ==
    {doc.sidebar_title, doc.sidebar_footer} \cup
    {LinkOf(item).href : item \in AllItems(doc.sidebar)}

\* The pages of the tree have slugs of their own.
DistinctSlugs == \A P, Q \in TreePages : slug[P] = slug[Q] => P = Q

\* C29: after publish of a Dashboard whose pages have distinct slugs, every link of
\* the navigation panel of every file names a file of the output.
C29_LinksResolve ==
    (PublishedOk /\ DistinctSlugs) =>
        \A doc_path \in DOMAIN files : \A href \in NavLinks(files[doc_path]) :
            ResolveLink(doc_path, href) \in DOMAIN files

\* Published: p1 with the sub-page p2 under another slug; index.html and both page
\* files are written, and the panel of pages/<slug of p2>.html links to all three.
C29_Witness ==
    /\ PublishedOk
    /\ DistinctSlugs
    /\ pages = <<"p1">>
    /\ children["p1"] = <<"p2">>
    /\ DOMAIN files = {IndexPath, PagePath("p1"), PagePath("p2")}
    /\ {ResolveLink(PagePath("p2"), href) : href \in NavLinks(files[PagePath("p2")])}
           = DOMAIN files

----------------------------------------------------------------------------
(* simpledash: a Dashboard published as one index.html whose sections are  *)
(* shown and hidden by the script showPage.  Section page-i and the nav    *)
(* link of page i are both named i.                                        *)

SimpleTitles == {"A", "B"}

\* Dashboard.add_page(Page(slug, title))
SimpleAddPage(title) ==
    /\ last.op \in {"init", "simple_add_page", "simple_append"}
    /\ Len(simple_pages) < MaxPages
    /\ simple_pages' = Append(simple_pages, [title |-> title, elements |-> <<>>])
    /\ last' = Call("simple_add_page", "simpledash", [title |-> title], NoExc)
    /\ UNCHANGED <<elements, tree, fs, files, figs, log, input_text, paragraphs,
                   dashboards, sites, display, active>>

\* Page.append(element) with a string: the element p(element) is appended.
SimpleAppend(i, str) ==
    /\ last.op \in {"simple_add_page", "simple_append"}
    /\ i \in 1..Len(simple_pages)
    /\ Len(simple_pages[i].elements) < MaxElems
    /\ simple_pages' = [simple_pages EXCEPT
                           ![i].elements = Append(@, [tag |-> "p", text |-> str])]
    /\ last' = Call("simple_append", "simpledash", [page |-> i], NoExc)
    /\ UNCHANGED <<elements, tree, fs, files, figs, log, input_text, paragraphs,
                   dashboards, sites, display, active>>

\* Dashboard.publish: index.html holds a nav link and a section page-i for the i-th
\* page, counted from 0; no section has an inline style, no link the class "active".
SimplePublish ==
    /\ last.op \in {"init", "simple_add_page", "simple_append"}
    /\ display' = [i \in 0..(Len(simple_pages) - 1) |-> ""]
    /\ active' = {}
    /\ last' = Call("simple_publish", "simpledash", [output_dir |-> "output"], NoExc)
    /\ UNCHANGED <<elements, tree, fs, files, figs, log, input_text, paragraphs,
                   dashboards, sites, simple_pages>>

\* event.target when the handler of the load event runs: the document, which has no
\* classList; it is no nav link.
DocumentTarget == -1

\* showPage(id) with event.target = target, on the sections' inline styles and the
\* set of active links: every section is hidden; the section of that id is shown
\* (none of that id: TypeError); every link loses "active"; the target gains it
\* (the document: TypeError).  An exception leaves what was done before it.
showPage(id, target, styles, classes) ==
    LET hidden == [i \in DOMAIN styles |-> "none"]
    IN  IF id \notin DOMAIN styles
        THEN [display |-> hidden, active |-> classes, exc |-> "TypeError"]
        ELSE IF target = DocumentTarget
        THEN [display |-> [hidden EXCEPT ![id] = "block"], active |-> {},
              exc |-> "TypeError"]
        ELSE [display |-> [hidden EXCEPT ![id] = "block"], active |-> {target},
              exc |-> NoExc]

\* window.onload = () => showPage('page-0')
SimpleLoad ==
    /\ last.op = "simple_publish"
    /\ display' = showPage(0, DocumentTarget, display, active).display
    /\ active' = showPage(0, DocumentTarget, display, active).active
    /\ last' = Call("load", "index.html", [id |-> 0],
                    showPage(0, DocumentTarget, display, active).exc)
    /\ UNCHANGED <<elements, tree, fs, files, figs, log, input_text, paragraphs,
                   dashboards, sites, simple_pages>>

\* A click on the nav link of page i: onclick="showPage('page-i')".
SimpleClick(i) ==
    /\ last.op \in {"load", "click"}
    /\ i \in 0..(Len(simple_pages) - 1)
    /\ display' = showPage(i, i, display, active).display
    /\ active' = showPage(i, i, display, active).active
    /\ last' = Call("click", "index.html", [id |-> i], showPage(i, i, display, active).exc)
    /\ UNCHANGED <<elements, tree, fs, files, figs, log, input_text, paragraphs,
                   dashboards, sites, simple_pages>>

NextSimple ==
    \/ \E title \in SimpleTitles : SimpleAddPage(title)
    \/ \E i \in 1..MaxPages : SimpleAppend(i, "t")
    \/ SimplePublish
    \/ SimpleLoad
    \/ \E i \in 0..(MaxPages - 1) : SimpleClick(i)

SpecSimple == Init /\ [][NextSimple]_vars

\* The sections that are shown.
VisibleSections == {i \in DOMAIN display : display[i] = "block"}

----------------------------------------------------------------------------
(* C30: in the loaded simpledash page one section is visible and one nav   *)
(* link is active, the link of that section.                               *)

\* C30: once the page of a Dashboard with pages is loaded, and after every click,
\* exactly one section is visible and exactly one link is active, the link of the
\* visible section; after the load that is the first page's.
C30_OneVisibleOneActive ==
    (last.op \in {"load", "click"} /\ simple_pages # <<>>) =>
        /\ Cardinality(VisibleSections) = 1
        /\ Cardinality(active) = 1
        /\ active = VisibleSections
        /\ last.op = "load" => VisibleSections = {0}

====
